---- MODULE Spec2Model ----
(***************************************************************************)
(* Verification model of the policy-optimization engine of IsaacDrones:    *)
(*   - MyBuffer, the circular replay store       (learning/common.py)      *)
(*   - soft_update / hard_update                 (learning/common.py)      *)
(*   - make_batch / make_dataset_naive           (ppo/ppo.py, mappo.py)    *)
(*   - generalized advantage estimation as PPOPolicy._compute_advantage    *)
(*     and the compute_gae callers use it        (ppo/ppo.py, ppo_adapt.py)*)
(*   - MASACPolicy.train_op                      (learning/sac.py)         *)
(*   - the value-normalizer protocol of the three PPO train_op routines    *)
(* Tensors are finite sequences of integers; arithmetic is exact.          *)
(***************************************************************************)
EXTENDS Integers, Sequences, FiniteSets, TLC

\* ------------------------------------------------------------------ bounds
MaxCapacity == 4
MaxInserted == 12
\* soft_update / hard_update inputs
NumParams == 2
MaxParam == 2
MaxTau == 2
\* minibatching inputs
MaxBatch == 4
MaxMinibatches == 3
MaxEpochs == 2
\* advantage estimation: the longest rollout
MaxT == 3
\* MASACPolicy configuration and the size of one incoming batch
MaxGradientSteps == 3
MaxActorDelay == 3
MaxTargetInterval == 2
MaxBufferSize == 2
MaxData == 2
\* PPO train_op: rollout length and number of calls
MaxRollout == 2
MaxCalls == 1
\* MyBuffer.sample: environments stored, batch_size and seq_len asked for
MaxEnvs == 2
MaxSampleBatch == 2
MaxSeqLen == 3
\* policy calls: the observations tried and the number of calls
MaxObs == 2
MaxActCalls == 2
\* minibatch updates: the values in a minibatch, the coefficients, the calls
MaxValue == 2
MaxEntropy == 1
MaxClip == 1
MaxEntropyCoef == 1
MaxHuberDelta == 1
MaxUpdates == 2
\* nn.HuberLoss(delta=10), PPOAdaptivePolicy
HuberDelta == 10
\* LogOnEpisode: n_episodes, environments, episode records made
MaxEpisodes == 3
MaxLogEnvs == 2
MaxRecords == 6
\* for epoch in range(4), PPOAdaptivePolicy._train_adaptation
AdaptationEpochs == 4

\* ---------------------------------------------------------------- helpers
Min(a, b) == IF a <= b THEN a ELSE b
Max(a, b) == IF a >= b THEN a ELSE b

RECURSIVE SeqMax(_)
SeqMax(s) == IF Len(s) = 1 THEN s[1] ELSE Max(s[1], SeqMax(Tail(s)))

Range(s) == {s[i] : i \in 1..Len(s)}

VARIABLES
  \* MyBuffer
  max_size,      \* storage.max_size
  storage,       \* storage._storage along the time axis: slot -> step id, 0 = never written
  storage_len,   \* storage._len
  cursor,        \* MyBuffer._cursor
  inserted,      \* number of time steps handed to extend so far (the id of the newest step)
  lastIndex,     \* the index tensor `cursor` of the latest extend call
  prevBuf        \* [cursor, storage, len, inserted] as they were before the latest extend

bufVars == <<max_size, storage, storage_len, cursor, inserted, lastIndex, prevBuf>>

VARIABLES
  \* soft_update / hard_update
  su_target,     \* list(target.parameters()), one integer per parameter tensor
  su_source,     \* list(source.parameters())
  su_tau,        \* tau
  su_pc,         \* "init" | "soft" | "hard": which update has run
  su_prev        \* [target, source] as they were before the call

suVars == <<su_target, su_source, su_tau, su_pc, su_prev>>

VARIABLES
  \* make_batch / make_dataset_naive
  mb_fn,         \* "make_batch" | "make_dataset_naive"
  mb_N, mb_T,    \* tensordict.shape = [N, T]; flat index of (env, t) is env * T + t
  mb_n,          \* num_minibatches
  mb_seq_len,    \* seq_len (1 for make_batch)
  mb_pc,         \* "call" | "iter" | "exhausted" | "raised"
  mb_rows,       \* rows of perm not yet yielded
  mb_yielded,    \* minibatches yielded in this epoch, each a sequence of windows
  mb_epoch       \* epochs started so far

mbVars == <<mb_fn, mb_N, mb_T, mb_n, mb_seq_len, mb_pc, mb_rows, mb_yielded, mb_epoch>>

VARIABLES
  \* advantage estimation
  gae_path,      \* "ppo": PPOPolicy._compute_advantage; "ppo_adapt": PPOAdaptivePolicy._train_policy
  gae_in,        \* [rewards, terms, dones, V, gamma, lmbda, stats]: the rollout and the critic
  gae_out,       \* [adv, ret]: the advantages and returns computed
  gae_pc         \* "init" | "done"

gaeVars == <<gae_path, gae_in, gae_out, gae_pc>>

VARIABLES
  \* MASACPolicy
  sac_cfg,        \* [gradient_steps, actor_delay, target_update_interval, buffer_size, tau]
  rb_len,         \* len(self.replay_buffer)
  sac_pc,         \* position in train_op; "idle" between calls
  gradient_step,  \* the loop variable of train_op
  critic,         \* parameters of self.critic
  critic_target,  \* parameters of self.critic_target
  actor,          \* parameters of self.actor
  log_alpha,      \* self.log_alpha
  infos_critic,   \* len(infos_critic)
  infos_actor,    \* len(infos_actor)
  sac_log,        \* what the current (or latest) call did so far: <<kind, gradient_step>>
  sac_result,     \* how the latest call ended: "none" | "empty" | "infos" | an exception
  sac_start       \* the parameters when the current (or latest) call started

sacVars == <<sac_cfg, rb_len, sac_pc, gradient_step, critic, critic_target, actor,
             log_alpha, infos_critic, infos_actor, sac_log, sac_result, sac_start>>

VARIABLES
  \* the train_op routines of PPOPolicy, MAPPOPolicy and PPOAdaptivePolicy
  ppo_variant,   \* "ppo" | "mappo" | "ppo_adapt"
  ppo_cfg,       \* [ppo_epochs, num_minibatches, value_norm, phase]
  vn_stats,      \* the running statistics of the value normalizer
  ppo_pc,        \* 0 between calls, else the position in the routine's steps
  ppo_batch,     \* the batch of the current (or latest) call: [rewards, terms, dones, V]
  ppo_values,    \* the local `values`
  ppo_next,      \* the local `next_values` / `next_value`
  ppo_adv,       \* the advantages; ppo_adv_std: whether they are standardized yet
  ppo_adv_std,
  ppo_ret,       \* the local `ret` / tensordict["returns"]
  ppo_done,      \* minibatch updates done in the current step of the routine
  ppo_log,       \* the steps the current (or latest) call has run
  ppo_start,     \* vn_stats when the current (or latest) call started
  ppo_opt_steps, \* optimizer steps taken so far: [actor, critic, encoder, adaptation]
  ppo_calls      \* train_op calls started

ppoVars == <<ppo_variant, ppo_cfg, vn_stats, ppo_pc, ppo_batch, ppo_values, ppo_next,
             ppo_adv, ppo_adv_std, ppo_ret, ppo_done, ppo_log, ppo_start,
             ppo_opt_steps, ppo_calls>>

VARIABLES
  \* PPOConfig and PPOAdaptivePolicy (ppo/ppo_adapt.py)
  ad_route,   \* how the configuration object is made: "PPOConfig" | "DictConfig"
  ad_cfg,     \* [condition_mode, adaptation_key, phase, adaptation_loss, ppo_epochs, num_minibatches]
  ad_pc,      \* "new" | "cfg" | "ready" | "failed" | position inside train_op
  ad_phase,   \* self.phase
  ad_params,  \* version of the parameters of each module, and of the value_norm statistics
  ad_done,    \* optimizer steps done in the running loop
  ad_log,     \* what the current (or latest) train_op call has run
  ad_error,   \* the latest exception raised: [type, at]
  ad_start,   \* [params, phase] when the current (or latest) train_op call started
  ad_calls,   \* train_op calls started
  ad_fwd      \* the latest forward on a pair of inputs: [a, b, dist_a, dist_b]

adVars == <<ad_route, ad_cfg, ad_pc, ad_phase, ad_params, ad_done, ad_log, ad_error,
            ad_start, ad_calls, ad_fwd>>

VARIABLES
  \* MyBuffer.sample (learning/common.py)
  smp_N,      \* storage._storage.shape[1]: the environments stored side by side
  smp_call,   \* the latest call: [batch_size, seq_len, len], len = storage._len at the call
  smp_out,    \* its outcome: [kind, batch, read]
  smp_prev    \* the kind of the outcome of the call before it

smpVars == <<smp_N, smp_call, smp_out, smp_prev>>

VARIABLES
  \* calling a policy object for actions (mappo.py, sac.py)
  act_policy,         \* "MAPPOPolicy" | "MASACPolicy"
  act_obs,            \* the observation in the tensordict handed to __call__
  act_deterministic,  \* the argument `deterministic` of the calls
  act_returned        \* the actions the calls made so far returned, parameters unchanged

actVars == <<act_policy, act_obs, act_deterministic, act_returned>>

VARIABLES
  \* one MyBuffer used by two threads calling extend and one calling sample
  cc_max_size,   \* storage.max_size
  cc_storage,    \* slot -> the thread whose data it holds, 0 = data stored before
  cc_len,        \* storage._len
  cc_cursor,     \* MyBuffer._cursor
  cc_start,      \* _cursor before the calls
  cc_t,          \* thread -> data.shape[-1] of its extend call
  cc_pc,         \* thread -> "call" | "set" | "store" | "done": the next line of extend
  cc_index,      \* thread -> its local `cursor`, the index tensor
  cc_sample      \* the sample call: [pc, seq_len, len_checked, len_read]

ccVars == <<cc_max_size, cc_storage, cc_len, cc_cursor, cc_start, cc_t, cc_pc,
            cc_index, cc_sample>>

VARIABLES
  \* the minibatch update of PPOPolicy, PPOAdaptivePolicy and MAPPOPolicy
  up_variant,  \* "PPOPolicy" | "PPOAdaptivePolicy" | "MAPPOPolicy"
  up_cfg,      \* [clip_param, entropy_coef, use_huber_loss, huber_delta]
  up_gen,      \* MAPPOPolicy.actor_params_list, a generator: "full" | "empty"
  up_grad,     \* network -> [grad, clipped]: the .grad of its parameters
  up_in,       \* the minibatch of the running (or latest) update
  up_out,      \* what the update computed: [value_loss, actor_loss, error, ...]
  up_ops,      \* the optimizer steps the update made, in order
  up_calls     \* updates made so far

upVars == <<up_variant, up_cfg, up_gen, up_grad, up_in, up_out, up_ops, up_calls>>

VARIABLES
  \* LogOnEpisode (utils/envs/transforms.py)
  log_n,        \* self.n_episodes
  log_envs,     \* tensordict.batch_size: the environments stepped together
  log_logger,   \* whether logger_func is given
  log_stats,    \* self.stats: the pending episode records, by record id
  log_records,  \* episode records made so far (the id of the newest)
  log_agg,      \* record id -> the number of aggregations (torch.stack) it was in
  log_last      \* the latest _step: [input, returned, logger_calls, stacked]

logVars == <<log_n, log_envs, log_logger, log_stats, log_records, log_agg, log_last>>

vars == <<bufVars, suVars, mbVars, gaeVars, sacVars, ppoVars, adVars, smpVars, actVars, ccVars, upVars, logVars>>

\* what the operations of one component leave alone
notBufVars == <<suVars, mbVars, gaeVars, sacVars, ppoVars, adVars, smpVars, actVars, ccVars, upVars, logVars>>
notSuVars == <<bufVars, mbVars, gaeVars, sacVars, ppoVars, adVars, smpVars, actVars, ccVars, upVars, logVars>>
notMbVars == <<bufVars, suVars, gaeVars, sacVars, ppoVars, adVars, smpVars, actVars, ccVars, upVars, logVars>>
notGaeVars == <<bufVars, suVars, mbVars, sacVars, ppoVars, adVars, smpVars, actVars, ccVars, upVars, logVars>>
notSacVars == <<bufVars, suVars, mbVars, gaeVars, ppoVars, adVars, smpVars, actVars, ccVars, upVars, logVars>>
notPpoVars == <<bufVars, suVars, mbVars, gaeVars, sacVars, adVars, smpVars, actVars, ccVars, upVars, logVars>>
notAdVars == <<bufVars, suVars, mbVars, gaeVars, sacVars, ppoVars, smpVars, actVars, ccVars, upVars, logVars>>
notSmpVars == <<bufVars, suVars, mbVars, gaeVars, sacVars, ppoVars, adVars, actVars, ccVars, upVars, logVars>>
notActVars == <<bufVars, suVars, mbVars, gaeVars, sacVars, ppoVars, adVars, smpVars, ccVars, upVars, logVars>>
notCcVars == <<bufVars, suVars, mbVars, gaeVars, sacVars, ppoVars, adVars, smpVars, actVars, upVars, logVars>>
notUpVars == <<bufVars, suVars, mbVars, gaeVars, sacVars, ppoVars, adVars, smpVars, actVars, ccVars, logVars>>
notLogVars == <<bufVars, suVars, mbVars, gaeVars, sacVars, ppoVars, adVars, smpVars, actVars, ccVars, upVars>>

\* ================================================================ MyBuffer
\* torch.arange(t) added to the cursor, modulo the capacity (common.py:31)
ExtendIndexNoWrap(c, t, cap) == [k \in 1..t |-> c + (k - 1)]
ExtendIndex(c, t, cap) == [k \in 1..t |-> (c + (k - 1)) % cap]

\* self._cursor = cursor[-1].item() + 1 (common.py:33)
NextCursorStuck(index) == index[Len(index)]
NextCursor(index) == index[Len(index)] + 1

\* LazyTensorStorage.set(cursor, data): self._len = max(self._len, max(cursor) + 1),
\* then self._storage[cursor] = data (common.py:32)
RECURSIVE StorageWrite(_, _, _, _)
StorageWrite(st, index, firstId, k) ==
  IF k > Len(index) THEN st
  ELSE StorageWrite(IF index[k] \in DOMAIN st
                      THEN [st EXCEPT ![index[k]] = firstId + k]
                      ELSE st,
                    index, firstId, k + 1)
StorageLen(len, index) == Max(len, SeqMax(index) + 1)

BufInit ==
  /\ max_size \in 1..MaxCapacity
  /\ storage = [s \in 0..(max_size - 1) |-> 0]
  /\ storage_len = 0
  /\ cursor = 0
  /\ inserted = 0
  /\ lastIndex = <<>>
  /\ prevBuf = [cursor |-> 0, storage |-> storage, len |-> 0, inserted |-> 0]

\* MyBuffer.extend(data) with data.shape[-1] = t
extend(t) ==
  LET index == ExtendIndex(cursor, t, max_size) IN
  /\ inserted + t <= MaxInserted
  /\ prevBuf' = [cursor |-> cursor, storage |-> storage,
                 len |-> storage_len, inserted |-> inserted]
  /\ storage' = StorageWrite(storage, index, inserted, 1)
  /\ storage_len' = StorageLen(storage_len, index)
  /\ cursor' = NextCursor(index)
  /\ inserted' = inserted + t
  /\ lastIndex' = index
  /\ UNCHANGED max_size
  /\ UNCHANGED notBufVars

Extend == \E t \in 1..max_size : extend(t)

\* MyBuffer.__len__
BufLen == storage_len

BufNext == Extend

\* the buffer as constructed and never used
BufIdle ==
  /\ max_size = 1
  /\ storage = [s \in 0..0 |-> 0]
  /\ storage_len = 0
  /\ cursor = 0
  /\ inserted = 0
  /\ lastIndex = <<>>
  /\ prevBuf = [cursor |-> 0, storage |-> storage, len |-> 0, inserted |-> 0]

\* ========================================================= MyBuffer.sample
\* sample_sub_traj: t + torch.arange(seq_len) (common.py:57)
SubTraj(t, seq_len) == [j \in 1..seq_len |-> t + (j - 1)]

\* torch.randint(low, high, ...): the draws, high exclusive; none when high <= low,
\* where randint raises RuntimeError
randint(low, high) == low..(high - 1)

NoCall == [batch_size |-> 0, seq_len |-> 0, len |-> 0]
NoSample == [kind |-> "none", batch |-> <<>>, read |-> {}]

\* a sample that slices the storage before it compares seq_len with the length
sampleReadsFirst(batch_size, seq_len) ==
  IF seq_len > storage_len
    THEN {[kind |-> "ValueError", batch |-> <<>>, read |-> 0..(storage_len - 1)]}
  ELSE IF randint(0, storage_len - seq_len) = {}
    THEN {[kind |-> "RuntimeError", batch |-> <<>>, read |-> 0..(storage_len - 1)]}
  ELSE {[kind |-> "batch", batch |-> b, read |-> 0..(storage_len - 1)] :
          b \in [1..batch_size ->
                   [env : randint(0, smp_N),
                    index : {SubTraj(t, seq_len) :
                               t \in randint(0, storage_len - seq_len)}]]}

\* MyBuffer.sample(batch_size, seq_len): the outcomes it can have. `batch` holds,
\* for each of the batch_size sub-trajectories, the environment column drawn
\* and the storage slots of its steps; `read` is the slots of the storage read.
sample(batch_size, seq_len) ==
  IF seq_len > storage_len
    THEN {[kind |-> "ValueError", batch |-> <<>>, read |-> {}]}
  ELSE IF randint(0, storage_len - seq_len) = {}
    THEN {[kind |-> "RuntimeError", batch |-> <<>>, read |-> 0..(storage_len - 1)]}
  ELSE {[kind |-> "batch", batch |-> b, read |-> 0..(storage_len - 1)] :
          b \in [1..batch_size ->
                   [env : randint(0, smp_N),
                    index : {SubTraj(t, seq_len) :
                               t \in randint(0, storage_len - seq_len)}]]}

SmpInit ==
  /\ smp_N \in 1..MaxEnvs
  /\ smp_call = NoCall
  /\ smp_out = NoSample
  /\ smp_prev = "none"

\* one call of sample, up to its return or raise
Sample ==
  /\ smp_out = NoSample
  /\ \E batch_size \in 1..MaxSampleBatch : \E seq_len \in 1..MaxSeqLen :
       \E out \in sample(batch_size, seq_len) :
         /\ smp_call' = [batch_size |-> batch_size, seq_len |-> seq_len,
                         len |-> storage_len]
         /\ smp_out' = out
  /\ UNCHANGED <<smp_N, smp_prev>>
  /\ UNCHANGED notSmpVars

\* the caller is done with the batch, or has caught the exception
SampleReturn ==
  /\ smp_out # NoSample
  /\ smp_prev' = smp_out.kind
  /\ smp_out' = NoSample
  /\ smp_call' = NoCall
  /\ UNCHANGED smp_N
  /\ UNCHANGED notSmpVars

\* an extend between two sample calls
ExtendBetween == smp_out = NoSample /\ Extend

SmpNext == ExtendBetween \/ Sample \/ SampleReturn

\* no sample call made
SmpIdle ==
  /\ smp_N = 1
  /\ smp_call = NoCall
  /\ smp_out = NoSample
  /\ smp_prev = "none"

\* ================================================= soft_update, hard_update
\* zip(target.parameters(), source.parameters()) pairs by position and stops at
\* the shorter list; target_param.data.copy_(tau * param.data + (1.0 - tau) * target_param.data)
soft_update_swapped(target, source, tau) ==
  [i \in 1..Len(target) |->
     IF i <= Min(Len(target), Len(source))
       THEN (1 - tau) * source[i] + tau * target[i]
       ELSE target[i]]
soft_update(target, source, tau) ==
  [i \in 1..Len(target) |->
     IF i <= Min(Len(target), Len(source))
       THEN tau * source[i] + (1 - tau) * target[i]
       ELSE target[i]]

\* target_param.data.copy_(param.data)
hard_update(target, source) ==
  [i \in 1..Len(target) |->
     IF i <= Min(Len(target), Len(source)) THEN source[i] ELSE target[i]]

ParamLists == [1..NumParams -> 0..MaxParam]

\* target is a deepcopy of source's module: the two lists have the same length
SuInit ==
  /\ su_target \in ParamLists
  /\ su_source \in ParamLists
  /\ su_tau \in 0..MaxTau
  /\ su_pc = "init"
  /\ su_prev = [target |-> su_target, source |-> su_source]

SoftUpdate ==
  /\ su_pc = "init"
  /\ su_prev' = [target |-> su_target, source |-> su_source]
  /\ su_target' = soft_update(su_target, su_source, su_tau)
  /\ su_pc' = "soft"
  /\ UNCHANGED <<su_source, su_tau>>
  /\ UNCHANGED notSuVars

HardUpdate ==
  /\ su_pc = "init"
  /\ su_prev' = [target |-> su_target, source |-> su_source]
  /\ su_target' = hard_update(su_target, su_source)
  /\ su_pc' = "hard"
  /\ UNCHANGED <<su_source, su_tau>>
  /\ UNCHANGED notSuVars

SuNext == SoftUpdate \/ HardUpdate

SuIdle ==
  /\ su_target = <<>>
  /\ su_source = <<>>
  /\ su_tau = 0
  /\ su_pc = "init"
  /\ su_prev = [target |-> <<>>, source |-> <<>>]

\* ======================================== make_batch, make_dataset_naive
RECURSIVE Perms(_)
\* torch.randperm(L): every ordering of 0..L-1, as the set of the possible draws
Perms(S) ==
  IF S = {} THEN {<<>>}
  ELSE UNION {{<<x>> \o p : p \in Perms(S \ {x})} : x \in S}
randperm(L) == Perms(0..(L - 1))

\* perm.reshape(num_minibatches, -1): row r (from 1) holds perm[(r-1)*w + 1 .. r*w]
Reshape(perm, n) ==
  LET w == Len(perm) \div n IN
  [r \in 1..n |-> [j \in 1..w |-> perm[(r - 1) * w + j]]]

\* the rows of the tensor the permutation indexes, each row a window of flat
\* indices env * T + t of the [N, T] batch:
\*   tensordict.reshape(-1)                       rows are single transitions
\*   tensordict[:, :T'].reshape(-1, seq_len)      rows are seq_len consecutive steps
FlatRows(N, T) == [r \in 0..(N * T - 1) |-> <<r>>]
\* the reshape without the truncation tensordict[:, :T']
WindowRowsNoTruncate(N, T, seq_len) ==
  [r \in 0..((N * T) \div seq_len - 1) |->
     [j \in 1..seq_len |-> r * seq_len + (j - 1)]]
WindowRows(N, T, seq_len) ==
  LET perEnv == T \div seq_len IN
  [r \in 0..(N * perEnv - 1) |->
     [j \in 1..seq_len |-> (r \div perEnv) * T + (r % perEnv) * seq_len + (j - 1)]]

BatchRows ==
  IF mb_fn = "make_dataset_naive" /\ mb_seq_len > 1
    THEN WindowRows(mb_N, mb_T, mb_seq_len)
    ELSE FlatRows(mb_N, mb_T)
NumRows == Cardinality(DOMAIN BatchRows)

\* (tensordict.shape[0] // num_minibatches) * num_minibatches
PermLengthNoTruncate(rows, n) == rows
PermLength(rows, n) == (rows \div n) * n

MbInit ==
  /\ mb_fn \in {"make_batch", "make_dataset_naive"}
  /\ mb_N \in 1..MaxBatch
  /\ mb_T \in 1..MaxBatch
  /\ mb_n \in 1..MaxMinibatches
  /\ mb_seq_len \in 1..mb_T
  /\ mb_fn = "make_batch" => mb_seq_len = 1
  /\ NumRows <= MaxBatch
  /\ mb_pc = "call"
  /\ mb_rows = <<>>
  /\ mb_yielded = <<>>
  /\ mb_epoch = 0

\* the body of the generator up to its loop: reshape(-1), randperm, reshape(n, -1).
\* Reshaping an empty permutation to (n, -1) raises RuntimeError: the size of
\* the unspecified dimension is ambiguous.
MakeBatch ==
  /\ mb_pc \in {"call", "exhausted"}
  /\ mb_epoch < MaxEpochs
  /\ PermLength(NumRows, mb_n) > 0
  /\ \E perm \in randperm(PermLength(NumRows, mb_n)) :
       mb_rows' = Reshape(perm, mb_n)
  /\ mb_yielded' = <<>>
  /\ mb_epoch' = mb_epoch + 1
  /\ mb_pc' = "iter"
  /\ UNCHANGED <<mb_fn, mb_N, mb_T, mb_n, mb_seq_len>>
  /\ UNCHANGED notMbVars

MakeBatchRaise ==
  /\ mb_pc \in {"call", "exhausted"}
  /\ mb_epoch < MaxEpochs
  /\ PermLength(NumRows, mb_n) = 0
  /\ mb_rows' = <<>>
  /\ mb_yielded' = <<>>
  /\ mb_epoch' = mb_epoch + 1
  /\ mb_pc' = "raised"
  /\ UNCHANGED <<mb_fn, mb_N, mb_T, mb_n, mb_seq_len>>
  /\ UNCHANGED notMbVars

\* for indices in perm: yield tensordict[indices]
YieldMinibatch ==
  /\ mb_pc = "iter"
  /\ Len(mb_rows) > 0
  /\ LET indices == Head(mb_rows) IN
       mb_yielded' = Append(mb_yielded,
                            [j \in 1..Len(indices) |-> BatchRows[indices[j]]])
  /\ mb_rows' = Tail(mb_rows)
  /\ mb_pc' = IF Len(mb_rows) = 1 THEN "exhausted" ELSE "iter"
  /\ UNCHANGED <<mb_fn, mb_N, mb_T, mb_n, mb_seq_len, mb_epoch>>
  /\ UNCHANGED notMbVars

MbNext == MakeBatch \/ MakeBatchRaise \/ YieldMinibatch

MbIdle ==
  /\ mb_fn = "make_batch"
  /\ mb_N = 1
  /\ mb_T = 1
  /\ mb_n = 1
  /\ mb_seq_len = 1
  /\ mb_pc = "call"
  /\ mb_rows = <<>>
  /\ mb_yielded = <<>>
  /\ mb_epoch = 0

\* ================================================== advantage estimation
\* Value normalizer (utils/valuenorm.py): normalize(x) = (x - mean) / std and
\* denormalize(x) = x * std + mean over the running statistics [mean, std];
\* a normalized value is kept as the exact fraction [num, den].
VNDenormalize(stats, xs) == [i \in 1..Len(xs) |-> xs[i] * stats.std + stats.mean]
VNNormalize(stats, xs) == [i \in 1..Len(xs) |-> [num |-> xs[i] - stats.mean, den |-> stats.std]]
\* ValueNormFake: the pass-through variant
FakeDenormalize(xs) == xs
FakeNormalize(xs) == xs

\* The backward recursion of the estimator, for t = T-1 .. 0:
\*   not_done = 1 - done[t]
\*   delta    = r[t] + gamma * v[t+1] * not_done - v[t]
\*   adv[t]   = delta + gamma * lmbda * not_done * (1 - term[t]) * adv[t+1]
\* with v[t+1] given per step as next_value[t]
RECURSIVE GaeAdv(_, _, _, _, _, _, _, _)
GaeAdv(r, term, done, v, next_v, gamma, lmbda, t) ==
  IF t > Len(r) THEN <<>>
  ELSE LET rest == GaeAdv(r, term, done, v, next_v, gamma, lmbda, t + 1)
           nextAdv == IF rest = <<>> THEN 0 ELSE rest[1]
           not_done == 1 - done[t]
           delta == r[t] + gamma * next_v[t] * not_done - v[t]
       IN <<delta + gamma * lmbda * not_done * (1 - term[t]) * nextAdv>> \o rest

\* GAE(gamma, lmbda).forward(rewards, terms, dones, values, next_values) -> (adv, ret)
GAE(r, term, done, v, next_v, gamma, lmbda) ==
  LET adv == GaeAdv(r, term, done, v, next_v, gamma, lmbda, 1) IN
  [adv |-> adv, ret |-> [t \in 1..Len(r) |-> adv[t] + v[t]]]

\* compute_gae(reward, done, value, next_value, gamma, lmbda) -> (adv, ret):
\* no termination flags, one bootstrap value after the last step
compute_gae(r, done, v, boot, gamma, lmbda) ==
  GAE(r, [t \in 1..Len(r) |-> 0], done, v,
      [t \in 1..Len(r) |-> IF t < Len(r) THEN v[t + 1] ELSE boot], gamma, lmbda)

\* The critic gives one value per observation; V[t] is the value of step t's
\* observation (t = 1..T) and V[T+1] that of the observation after the rollout.
StateValues(V, T) == [t \in 1..T |-> V[t]]
NextStateValues(V, T) == [t \in 1..T |-> V[t + 1]]

\* PPOPolicy._compute_advantage: the critic is run on the batch and on
\* batch["next"], both value tensors are denormalized, GAE is run on
\* (rewards, terms, dones, values, next_values), the returns are normalized
compute_advantage_flags_swapped(rewards, terms, dones, V, gamma, lmbda) ==
  LET T == Len(rewards)
      values == FakeDenormalize(StateValues(V, T))
      next_values == FakeDenormalize(NextStateValues(V, T))
      g == GAE(rewards, dones, terms, values, next_values, gamma, lmbda)
  IN [adv |-> g.adv, ret |-> FakeNormalize(g.ret)]
compute_advantage_values_twice(rewards, terms, dones, V, gamma, lmbda) ==
  LET T == Len(rewards)
      values == FakeDenormalize(StateValues(V, T))
      g == GAE(rewards, terms, dones, values, values, gamma, lmbda)
  IN [adv |-> g.adv, ret |-> FakeNormalize(g.ret)]
compute_advantage(rewards, terms, dones, V, gamma, lmbda) ==
  LET T == Len(rewards)
      values == FakeDenormalize(StateValues(V, T))
      next_values == FakeDenormalize(NextStateValues(V, T))
      g == GAE(rewards, terms, dones, values, next_values, gamma, lmbda)
  IN [adv |-> g.adv, ret |-> FakeNormalize(g.ret)]

\* PPOAdaptivePolicy._train_policy up to compute_gae: the bootstrap value is the
\* critic on the observation after the last step, the values are those stored
\* in the batch, both are denormalized
train_policy_gae(rewards, dones, V, stats, gamma, lmbda) ==
  LET T == Len(rewards)
      values == VNDenormalize(stats, StateValues(V, T))
      next_values == VNDenormalize(stats, <<V[T + 1]>>)
  IN compute_gae(rewards, dones, values, next_values[1], gamma, lmbda)

Bits(T) == [1..T -> {0, 1}]
\* exact arithmetic needs integer coefficients: the undiscounted and a
\* discounting case for lmbda = 1, and lmbda = 0
GaeCoefficients == {<<1, 1>>, <<2, 1>>, <<2, 0>>}
GaeStats == {[mean |-> 0, std |-> 1], [mean |-> 1, std |-> 2]}

GaeInit ==
  /\ gae_path \in {"ppo", "ppo_adapt"}
  /\ \E T \in 1..MaxT :
     \E r \in Bits(T), d \in Bits(T), tm \in Bits(T), V \in Bits(T + 1) :
     \E c \in GaeCoefficients, st \in GaeStats :
       /\ gae_path = "ppo" => st.std = 1
       /\ gae_path = "ppo_adapt" => tm = [t \in 1..T |-> 0]
       /\ gae_in = [rewards |-> r, terms |-> tm, dones |-> d, V |-> V,
                    gamma |-> c[1], lmbda |-> c[2], stats |-> st]
  /\ gae_out = [adv |-> <<>>, ret |-> <<>>]
  /\ gae_pc = "init"

ComputeAdvantage ==
  /\ gae_pc = "init"
  /\ gae_path = "ppo"
  /\ gae_out' = compute_advantage(gae_in.rewards, gae_in.terms, gae_in.dones,
                                  gae_in.V, gae_in.gamma, gae_in.lmbda)
  /\ gae_pc' = "done"
  /\ UNCHANGED <<gae_path, gae_in>>
  /\ UNCHANGED notGaeVars

TrainPolicyGae ==
  /\ gae_pc = "init"
  /\ gae_path = "ppo_adapt"
  /\ gae_out' = train_policy_gae(gae_in.rewards, gae_in.dones, gae_in.V,
                                 gae_in.stats, gae_in.gamma, gae_in.lmbda)
  /\ gae_pc' = "done"
  /\ UNCHANGED <<gae_path, gae_in>>
  /\ UNCHANGED notGaeVars

GaeNext == ComputeAdvantage \/ TrainPolicyGae

GaeIdle ==
  /\ gae_path = "ppo"
  /\ gae_in = [rewards |-> <<>>, terms |-> <<>>, dones |-> <<>>, V |-> <<0>>,
               gamma |-> 1, lmbda |-> 1, stats |-> [mean |-> 0, std |-> 1]]
  /\ gae_out = [adv |-> <<>>, ret |-> <<>>]
  /\ gae_pc = "init"

\* ================================================== MASACPolicy.train_op
SacParamValues == {0, 1}
SacTaus == {0, 1}

\* self.critic_target = copy.deepcopy(self.critic); critic_opt holds
\* self.critic.parameters() only: the target's parameters after the critic's
\* have been stepped to newCritic
TargetSharedWithCritic(target, newCritic) == newCritic
TargetAfterCriticStep(target, newCritic) == target

\* if len(self.replay_buffer) < self.cfg.buffer_size: return {}
StillWarmingUpNoGate(len, buffer_size) == len < 1
StillWarmingUp(len, buffer_size) == len < buffer_size

\* if (gradient_step + 1) % self.cfg.actor_delay == 0
ActorDue(step, actor_delay) == (step + 1) % actor_delay = 0
\* if gradient_step % self.cfg.target_update_interval == 0
TargetDue(step, interval) == step % interval = 0

SacParams == [critic |-> critic, critic_target |-> critic_target,
              actor |-> actor, log_alpha |-> log_alpha]

SacInit ==
  /\ sac_cfg \in [gradient_steps : 1..MaxGradientSteps,
                   actor_delay : 1..MaxActorDelay,
                   target_update_interval : 1..MaxTargetInterval,
                   buffer_size : 1..MaxBufferSize,
                   tau : SacTaus]
  /\ rb_len = 0
  /\ sac_pc = "idle"
  /\ gradient_step = 0
  /\ critic \in {<<x>> : x \in SacParamValues}
  /\ critic_target = critic
  /\ actor \in SacParamValues
  /\ log_alpha = 0
  /\ infos_critic = 0
  /\ infos_actor = 0
  /\ sac_log = <<>>
  /\ sac_result = "none"
  /\ sac_start = SacParams

Logged(kind) == sac_log' = Append(sac_log, <<kind, gradient_step>>)

\* train_op(data): self.replay_buffer.extend(data.reshape(-1)) with k transitions;
\* the storage is circular with max_size = buffer_size
TrainOpExtend ==
  /\ sac_pc = "idle"
  /\ \E k \in 1..MaxData : rb_len' = Min(rb_len + k, sac_cfg.buffer_size)
  /\ sac_pc' = "stored"
  /\ gradient_step' = 0
  /\ infos_critic' = 0
  /\ infos_actor' = 0
  /\ sac_log' = <<<<"extend", 0>>>>
  /\ sac_result' = "none"
  /\ sac_start' = SacParams
  /\ UNCHANGED <<sac_cfg, critic, critic_target, actor, log_alpha>>
  /\ UNCHANGED notSacVars

\* the warm-up return
TrainOpWarmup ==
  /\ sac_pc = "stored"
  /\ StillWarmingUp(rb_len, sac_cfg.buffer_size)
  /\ sac_pc' = "idle"
  /\ sac_result' = "empty"
  /\ UNCHANGED <<sac_cfg, rb_len, gradient_step, critic, critic_target, actor,
                 log_alpha, infos_critic, infos_actor, sac_log, sac_start>>
  /\ UNCHANGED notSacVars

\* infos_critic = []; infos_actor = []; entering the loop
TrainOpBegin ==
  /\ sac_pc = "stored"
  /\ ~StillWarmingUp(rb_len, sac_cfg.buffer_size)
  /\ sac_pc' = "loop"
  /\ UNCHANGED <<sac_cfg, rb_len, gradient_step, critic, critic_target, actor,
                 log_alpha, infos_critic, infos_actor, sac_log, sac_result, sac_start>>
  /\ UNCHANGED notSacVars

\* for gradient_step in range(1, self.gradient_steps + 1):
\*   transition = self.replay_buffer.sample()
SacSample ==
  /\ sac_pc = "loop"
  /\ gradient_step < sac_cfg.gradient_steps
  /\ gradient_step' = gradient_step + 1
  /\ sac_log' = Append(sac_log, <<"sample", gradient_step + 1>>)
  /\ sac_pc' = "target_q"
  /\ UNCHANGED <<sac_cfg, rb_len, critic, critic_target, actor, log_alpha,
                 infos_critic, infos_actor, sac_result, sac_start>>
  /\ UNCHANGED notSacVars

\* the asserts placed after the critic's optimizer step
SacTargetQAssertAfterStep ==
  /\ sac_pc = "target_q"
  /\ \E finite \in BOOLEAN :
       IF finite
         THEN /\ sac_pc' = "critic"
              /\ Logged("read_target")
              /\ UNCHANGED <<sac_result, critic, infos_critic>>
         ELSE /\ sac_pc' = "idle"
              /\ sac_result' = "AssertionError"
              /\ critic' \in {<<x>> : x \in SacParamValues}
              /\ infos_critic' = infos_critic + 1
              /\ sac_log' = sac_log \o <<<<"read_target", gradient_step>>,
                                         <<"critic", gradient_step>>>>
  /\ UNCHANGED <<sac_cfg, rb_len, gradient_step, critic_target, actor,
                 log_alpha, infos_actor, sac_start>>
  /\ UNCHANGED notSacVars

\* the no_grad block: next_qs = self.critic_target(...), target_q, and the two
\* asserts on it; the rewards and values in the batch decide whether it is finite
SacTargetQ ==
  /\ sac_pc = "target_q"
  /\ Logged("read_target")
  /\ \E finite \in BOOLEAN :
       IF finite
         THEN sac_pc' = "critic" /\ UNCHANGED sac_result
         ELSE sac_pc' = "idle" /\ sac_result' = "AssertionError"
  /\ UNCHANGED <<sac_cfg, rb_len, gradient_step, critic, critic_target, actor,
                 log_alpha, infos_critic, infos_actor, sac_start>>
  /\ UNCHANGED notSacVars

\* critic_loss.backward(); clip_grad_norm_; self.critic_opt.step(); infos_critic.append
SacCriticStep ==
  /\ sac_pc = "critic"
  /\ \E new \in {<<x>> : x \in SacParamValues} :
       /\ critic' = new
       /\ critic_target' = TargetAfterCriticStep(critic_target, new)
  /\ infos_critic' = infos_critic + 1
  /\ Logged("critic")
  /\ sac_pc' = "actor?"
  /\ UNCHANGED <<sac_cfg, rb_len, gradient_step, actor, log_alpha, infos_actor,
                 sac_result, sac_start>>
  /\ UNCHANGED notSacVars

\* under hold_out_net(self.critic): actor_loss.backward(); self.actor_opt.step()
SacActorStep ==
  /\ sac_pc = "actor?"
  /\ ActorDue(gradient_step, sac_cfg.actor_delay)
  /\ actor' \in SacParamValues
  /\ Logged("actor")
  /\ sac_pc' = "alpha"
  /\ UNCHANGED <<sac_cfg, rb_len, gradient_step, critic, critic_target, log_alpha,
                 infos_critic, infos_actor, sac_result, sac_start>>
  /\ UNCHANGED notSacVars

\* alpha_loss.backward(); self.alpha_opt.step(); infos_actor.append
SacAlphaStep ==
  /\ sac_pc = "alpha"
  /\ log_alpha' \in SacParamValues
  /\ infos_actor' = infos_actor + 1
  /\ Logged("alpha")
  /\ sac_pc' = "target?"
  /\ UNCHANGED <<sac_cfg, rb_len, gradient_step, critic, critic_target, actor,
                 infos_critic, sac_result, sac_start>>
  /\ UNCHANGED notSacVars

SacSkipActor ==
  /\ sac_pc = "actor?"
  /\ ~ActorDue(gradient_step, sac_cfg.actor_delay)
  /\ sac_pc' = "target?"
  /\ UNCHANGED <<sac_cfg, rb_len, gradient_step, critic, critic_target, actor,
                 log_alpha, infos_critic, infos_actor, sac_log, sac_result, sac_start>>
  /\ UNCHANGED notSacVars

\* with torch.no_grad(): soft_update(self.critic_target, self.critic, self.cfg.tau)
SacSoftUpdate ==
  /\ sac_pc = "target?"
  /\ TargetDue(gradient_step, sac_cfg.target_update_interval)
  /\ critic_target' = soft_update(critic_target, critic, sac_cfg.tau)
  /\ Logged("soft_update")
  /\ sac_pc' = "loop"
  /\ UNCHANGED <<sac_cfg, rb_len, gradient_step, critic, actor, log_alpha,
                 infos_critic, infos_actor, sac_result, sac_start>>
  /\ UNCHANGED notSacVars

SacSkipSoftUpdate ==
  /\ sac_pc = "target?"
  /\ ~TargetDue(gradient_step, sac_cfg.target_update_interval)
  /\ sac_pc' = "loop"
  /\ UNCHANGED <<sac_cfg, rb_len, gradient_step, critic, critic_target, actor,
                 log_alpha, infos_critic, infos_actor, sac_log, sac_result, sac_start>>
  /\ UNCHANGED notSacVars

\* infos = {**torch.stack(infos_actor), **torch.stack(infos_critic)}: torch.stack
\* of an empty list raises RuntimeError
TrainOpReturn ==
  /\ sac_pc = "loop"
  /\ gradient_step = sac_cfg.gradient_steps
  /\ sac_result' = IF infos_actor = 0 \/ infos_critic = 0 THEN "RuntimeError" ELSE "infos"
  /\ sac_pc' = "idle"
  /\ UNCHANGED <<sac_cfg, rb_len, gradient_step, critic, critic_target, actor,
                 log_alpha, infos_critic, infos_actor, sac_log, sac_start>>
  /\ UNCHANGED notSacVars

SacNext ==
  \/ TrainOpExtend \/ TrainOpWarmup \/ TrainOpBegin
  \/ SacSample \/ SacTargetQ \/ SacCriticStep
  \/ SacActorStep \/ SacAlphaStep \/ SacSkipActor
  \/ SacSoftUpdate \/ SacSkipSoftUpdate \/ TrainOpReturn

SacIdle ==
  /\ sac_cfg = [gradient_steps |-> 1, actor_delay |-> 1, target_update_interval |-> 1,
                buffer_size |-> 1, tau |-> 0]
  /\ rb_len = 0
  /\ sac_pc = "idle"
  /\ gradient_step = 0
  /\ critic = <<0>>
  /\ critic_target = <<0>>
  /\ actor = 0
  /\ log_alpha = 0
  /\ infos_critic = 0
  /\ infos_actor = 0
  /\ sac_log = <<>>
  /\ sac_result = "none"
  /\ sac_start = SacParams

\* ===================================================== the PPO train_op's
RECURSIVE SeqSum(_)
SeqSum(xs) == IF xs = <<>> THEN 0 ELSE xs[1] + SeqSum(Tail(xs))
RECURSIVE SeqMin(_)
SeqMin(xs) == IF Len(xs) = 1 THEN xs[1] ELSE Min(xs[1], SeqMin(Tail(xs)))

\* update(returns) folds the batch into the running moments: an exponential
\* average of the old mean and the batch mean, and of the old and the batch spread
VNUpdate(stats, xs) ==
  [mean |-> (stats.mean + (SeqSum(xs) \div Len(xs))) \div 2,
   std |-> 1 + ((stats.std - 1) + (SeqMax(xs) - SeqMin(xs)) + 1) \div 2]

\* The steps of each routine, in program order.
\* PPOPolicy.train_op -> _compute_advantage: denormalize, gae, update, normalize;
\* then normalize(adv) and the epochs of minibatch updates
TrainOpStepsPPO ==
  <<"denormalize", "gae", "update", "normalize", "standardize_adv", "minibatches">>

\* MAPPOPolicy.train_op; the normalizer steps only if hasattr(self, "value_normalizer")
TrainOpStepsMAPPO(value_norm) ==
  IF value_norm
    THEN <<"denormalize", "gae", "standardize_adv", "update", "normalize", "minibatches">>
    ELSE <<"gae", "standardize_adv", "minibatches">>

\* PPOAdaptivePolicy.train_op: _train_policy in the encoder phase,
\* _train_adaptation in the adaptation phase
TrainOpStepsAdaptGaeFirst(phase) ==
  IF phase = "encoder"
    THEN <<"gae", "denormalize", "standardize_adv", "update", "normalize", "minibatches">>
    ELSE <<"adaptation">>
TrainOpStepsAdapt(phase) ==
  IF phase = "encoder"
    THEN <<"denormalize", "gae", "standardize_adv", "update", "normalize", "minibatches">>
    ELSE <<"adaptation">>

PpoSteps ==
  CASE ppo_variant = "ppo" -> TrainOpStepsPPO
    [] ppo_variant = "mappo" -> TrainOpStepsMAPPO(ppo_cfg.value_norm)
    [] ppo_variant = "ppo_adapt" -> TrainOpStepsAdapt(ppo_cfg.phase)

\* PPOPolicy holds ValueNormFake, the other two a real normalizer
FakeNorm == ppo_variant = "ppo"

\* a terminated step is a done step: done = terminated | truncated
PpoBatches ==
  UNION {{b \in [rewards : Bits(T), terms : Bits(T), dones : Bits(T), V : Bits(T + 1)] :
            \A t \in 1..T : b.terms[t] <= b.dones[t]}
           : T \in 1..MaxRollout}
\* the statistics a policy starts a run with: fresh, or loaded from a checkpoint
PpoStats == {[mean |-> 0, std |-> 1], [mean |-> 1, std |-> 2]}
NoBatch == [rewards |-> <<>>, terms |-> <<>>, dones |-> <<>>, V |-> <<>>]

PpoInit ==
  /\ ppo_variant \in {"ppo", "mappo", "ppo_adapt"}
  /\ ppo_cfg \in [ppo_epochs : 1..MaxEpochs, num_minibatches : 1..MaxRollout,
                   value_norm : BOOLEAN, phase : {"encoder", "adaptation"}]
  /\ ppo_variant # "mappo" => ppo_cfg.value_norm
  /\ ppo_variant # "ppo_adapt" => ppo_cfg.phase = "encoder"
  /\ vn_stats \in PpoStats
  /\ (ppo_variant = "ppo" \/ ~ppo_cfg.value_norm) => vn_stats = [mean |-> 0, std |-> 1]
  /\ ppo_pc = 0
  /\ ppo_batch = NoBatch
  /\ ppo_values = <<>>
  /\ ppo_next = <<>>
  /\ ppo_adv = <<>>
  /\ ppo_adv_std = FALSE
  /\ ppo_ret = <<>>
  /\ ppo_done = 0
  /\ ppo_log = <<>>
  /\ ppo_start = vn_stats
  /\ ppo_opt_steps = [actor |-> 0, critic |-> 0, encoder |-> 0, adaptation |-> 0]
  /\ ppo_calls = 0

PpoAt(kind) == ppo_pc \in 1..Len(PpoSteps) /\ PpoSteps[ppo_pc] = kind
PpoAdvance(kind) ==
  /\ ppo_pc' = ppo_pc + 1
  /\ ppo_log' = Append(ppo_log, kind)
  /\ ppo_done' = 0

\* train_op(tensordict): the batch arrives with at least num_minibatches
\* transitions; `values` are the state values of the batch and `next_values`
\* the critic on the next observations (PPOPolicy: of every step; MAPPO and
\* adaptive PPO: of the last step only)
PpoTrainOp ==
  /\ ppo_pc = 0
  /\ ppo_calls < MaxCalls
  /\ \E b \in PpoBatches :
       /\ Len(b.rewards) >= ppo_cfg.num_minibatches
       /\ ppo_variant # "ppo" => b.terms = [t \in 1..Len(b.rewards) |-> 0]
       /\ ppo_batch' = b
       /\ ppo_values' = StateValues(b.V, Len(b.rewards))
       /\ ppo_next' = IF ppo_variant = "ppo"
                        THEN NextStateValues(b.V, Len(b.rewards))
                        ELSE <<b.V[Len(b.rewards) + 1]>>
  /\ ppo_pc' = 1
  /\ ppo_adv' = <<>>
  /\ ppo_adv_std' = FALSE
  /\ ppo_ret' = <<>>
  /\ ppo_done' = 0
  /\ ppo_log' = <<>>
  /\ ppo_start' = vn_stats
  /\ ppo_calls' = ppo_calls + 1
  /\ UNCHANGED <<ppo_variant, ppo_cfg, vn_stats, ppo_opt_steps>>
  /\ UNCHANGED notPpoVars

\* values = value_norm.denormalize(values); next_values = value_norm.denormalize(next_values)
PpoDenormalize ==
  /\ PpoAt("denormalize")
  /\ ppo_values' = IF FakeNorm THEN FakeDenormalize(ppo_values)
                    ELSE VNDenormalize(vn_stats, ppo_values)
  /\ ppo_next' = IF FakeNorm THEN FakeDenormalize(ppo_next)
                  ELSE VNDenormalize(vn_stats, ppo_next)
  /\ PpoAdvance("denormalize")
  /\ UNCHANGED <<ppo_variant, ppo_cfg, vn_stats, ppo_batch, ppo_adv, ppo_adv_std,
                 ppo_ret, ppo_start, ppo_opt_steps, ppo_calls>>
  /\ UNCHANGED notPpoVars

\* adv, ret = self.gae(rewards, terms, dones, values, next_values)   (PPOPolicy)
\* adv, ret = compute_gae(rewards, dones, values, next_values)       (the others)
PpoGae ==
  /\ PpoAt("gae")
  /\ LET g == IF ppo_variant = "ppo"
                THEN GAE(ppo_batch.rewards, ppo_batch.terms, ppo_batch.dones,
                         ppo_values, ppo_next, 1, 1)
                ELSE compute_gae(ppo_batch.rewards, ppo_batch.dones,
                                 ppo_values, ppo_next[1], 1, 1)
     IN /\ ppo_adv' = g.adv
        /\ ppo_ret' = g.ret
  /\ PpoAdvance("gae")
  /\ UNCHANGED <<ppo_variant, ppo_cfg, vn_stats, ppo_batch, ppo_values, ppo_next,
                 ppo_adv_std, ppo_start, ppo_opt_steps, ppo_calls>>
  /\ UNCHANGED notPpoVars

\* the advantages are centred and rescaled over the batch; the returns are not touched
PpoStandardizeAdv ==
  /\ PpoAt("standardize_adv")
  /\ ppo_adv_std' = TRUE
  /\ PpoAdvance("standardize_adv")
  /\ UNCHANGED <<ppo_variant, ppo_cfg, vn_stats, ppo_batch, ppo_values, ppo_next,
                 ppo_adv, ppo_ret, ppo_start, ppo_opt_steps, ppo_calls>>
  /\ UNCHANGED notPpoVars

\* self.value_norm.update(ret); ValueNormFake.update changes nothing
PpoValueNormUpdate ==
  /\ PpoAt("update")
  /\ vn_stats' = IF FakeNorm THEN vn_stats ELSE VNUpdate(vn_stats, ppo_ret)
  /\ PpoAdvance("update")
  /\ UNCHANGED <<ppo_variant, ppo_cfg, ppo_batch, ppo_values, ppo_next, ppo_adv,
                 ppo_adv_std, ppo_ret, ppo_start, ppo_opt_steps, ppo_calls>>
  /\ UNCHANGED notPpoVars

\* ret = self.value_norm.normalize(ret)
PpoNormalize ==
  /\ PpoAt("normalize")
  /\ ppo_ret' = IF FakeNorm THEN FakeNormalize(ppo_ret)
                 ELSE VNNormalize(vn_stats, ppo_ret)
  /\ PpoAdvance("normalize")
  /\ UNCHANGED <<ppo_variant, ppo_cfg, vn_stats, ppo_batch, ppo_values, ppo_next,
                 ppo_adv, ppo_adv_std, ppo_start, ppo_opt_steps, ppo_calls>>
  /\ UNCHANGED notPpoVars

\* one minibatch of one epoch: _update (PPOPolicy: actor and critic; adaptive
\* PPO: actor, critic and encoder), update_actor and update_critic (MAPPO)
PpoMinibatchUpdate ==
  /\ PpoAt("minibatches")
  /\ ppo_done < ppo_cfg.ppo_epochs * ppo_cfg.num_minibatches
  /\ ppo_done' = ppo_done + 1
  /\ ppo_opt_steps' =
       [ppo_opt_steps EXCEPT !.actor = @ + 1, !.critic = @ + 1,
                             !.encoder = IF ppo_variant = "ppo_adapt" THEN @ + 1 ELSE @]
  /\ ppo_log' = Append(ppo_log, "minibatch")
  /\ UNCHANGED <<ppo_variant, ppo_cfg, vn_stats, ppo_pc, ppo_batch, ppo_values,
                 ppo_next, ppo_adv, ppo_adv_std, ppo_ret, ppo_start, ppo_calls>>
  /\ UNCHANGED notPpoVars

PpoMinibatchesEnd ==
  /\ PpoAt("minibatches")
  /\ ppo_done = ppo_cfg.ppo_epochs * ppo_cfg.num_minibatches
  /\ ppo_pc' = ppo_pc + 1
  /\ ppo_done' = 0
  /\ UNCHANGED <<ppo_variant, ppo_cfg, vn_stats, ppo_batch, ppo_values, ppo_next,
                 ppo_adv, ppo_adv_std, ppo_ret, ppo_log, ppo_start, ppo_opt_steps,
                 ppo_calls>>
  /\ UNCHANGED notPpoVars

\* _train_adaptation: for epoch in range(4): for batch in make_batch(...):
\*   loss.backward(); self.adapt_opt.step()
PpoAdaptationStep ==
  /\ PpoAt("adaptation")
  /\ ppo_done < AdaptationEpochs * ppo_cfg.num_minibatches
  /\ ppo_done' = ppo_done + 1
  /\ ppo_opt_steps' = [ppo_opt_steps EXCEPT !.adaptation = @ + 1]
  /\ ppo_log' = Append(ppo_log, "adaptation")
  /\ UNCHANGED <<ppo_variant, ppo_cfg, vn_stats, ppo_pc, ppo_batch, ppo_values,
                 ppo_next, ppo_adv, ppo_adv_std, ppo_ret, ppo_start, ppo_calls>>
  /\ UNCHANGED notPpoVars

PpoAdaptationEnd ==
  /\ PpoAt("adaptation")
  /\ ppo_done = AdaptationEpochs * ppo_cfg.num_minibatches
  /\ ppo_pc' = ppo_pc + 1
  /\ ppo_done' = 0
  /\ UNCHANGED <<ppo_variant, ppo_cfg, vn_stats, ppo_batch, ppo_values, ppo_next,
                 ppo_adv, ppo_adv_std, ppo_ret, ppo_log, ppo_start, ppo_opt_steps,
                 ppo_calls>>
  /\ UNCHANGED notPpoVars

\* return infos: the batch and the locals of the call are gone, the
\* statistics and the networks stay
PpoReturn ==
  /\ ppo_pc = Len(PpoSteps) + 1
  /\ ppo_pc' = 0
  /\ ppo_log' = Append(ppo_log, "return")
  /\ ppo_batch' = NoBatch
  /\ ppo_values' = <<>>
  /\ ppo_next' = <<>>
  /\ ppo_adv' = <<>>
  /\ ppo_adv_std' = FALSE
  /\ ppo_ret' = <<>>
  /\ UNCHANGED <<ppo_variant, ppo_cfg, vn_stats, ppo_done, ppo_start, ppo_opt_steps,
                 ppo_calls>>
  /\ UNCHANGED notPpoVars

PpoNext ==
  \/ PpoTrainOp \/ PpoDenormalize \/ PpoGae \/ PpoStandardizeAdv
  \/ PpoValueNormUpdate \/ PpoNormalize
  \/ PpoMinibatchUpdate \/ PpoMinibatchesEnd
  \/ PpoAdaptationStep \/ PpoAdaptationEnd \/ PpoReturn

PpoIdle ==
  /\ ppo_variant = "ppo"
  /\ ppo_cfg = [ppo_epochs |-> 1, num_minibatches |-> 1, value_norm |-> TRUE,
                phase |-> "encoder"]
  /\ vn_stats = [mean |-> 0, std |-> 1]
  /\ ppo_pc = 0
  /\ ppo_batch = NoBatch
  /\ ppo_values = <<>>
  /\ ppo_next = <<>>
  /\ ppo_adv = <<>>
  /\ ppo_adv_std = FALSE
  /\ ppo_ret = <<>>
  /\ ppo_done = 0
  /\ ppo_log = <<>>
  /\ ppo_start = vn_stats
  /\ ppo_opt_steps = [actor |-> 0, critic |-> 0, encoder |-> 0, adaptation |-> 0]
  /\ ppo_calls = 0

\* ============================================ PPOConfig, PPOAdaptivePolicy
ConditionModes == {"cat", "film", "CAT", "concat"}
AdaptationKeys == {"context", "intrinsics", "_feature", "latent"}
Phases == {"encoder", "adaptation", "finetune"}
AdaptationLosses == {"mse", "gan", "lsgan", "MSE", "l1"}
\* str.lower() on the strings above
Lower(x) == CASE x = "CAT" -> "cat" [] x = "MSE" -> "mse" [] OTHER -> x

\* PPOConfig.__post_init__: the four asserts
PostInitPasses(cfg) ==
  /\ Lower(cfg.condition_mode) \in {"cat", "film"}
  /\ cfg.adaptation_key \in {"context", "intrinsics", "_feature"}
  /\ cfg.phase \in {"encoder", "adaptation"}
  /\ Lower(cfg.adaptation_loss) \in {"mse", "gan", "lsgan"}

\* PPOAdaptivePolicy.__init__, the first statement that raises:
\*   `condition` is bound only under == "cat" / == "film" and called at line 143;
\*   fake_input[self.adaptation_key] at line 186;
\*   self.adaptation_loss is bound only under == "mse" / "gan" / "lsgan" and
\*   read at line 228.  self.phase = self.cfg.phase is stored unchecked.
ConstructionError(cfg) ==
  CASE cfg.condition_mode \notin {"cat", "film"} -> "UnboundLocalError"
    [] cfg.adaptation_key \notin {"context", "intrinsics", "_feature"} -> "KeyError"
    [] cfg.adaptation_loss \notin {"mse", "gan", "lsgan"} -> "AttributeError"
    [] OTHER -> "none"

\* train_op: the routine chosen by self.phase
TrainOpRoutineDefaultPolicy(phase) ==
  CASE phase = "adaptation" -> "_train_adaptation" [] OTHER -> "_train_policy"
TrainOpRoutine(phase) ==
  CASE phase = "encoder" -> "_train_policy"
    [] phase = "adaptation" -> "_train_adaptation"
    [] OTHER -> "RuntimeError"

Modules == {"actor", "critic", "encoder", "adaptation_module", "discriminator", "value_norm"}
\* _train_policy: value_norm.update(ret) once
TrainPolicyWrites == {"value_norm"}
\* _update: actor_opt.step(), critic_opt.step(), encoder_opt.step()
UpdateWrites == {"actor", "critic", "encoder"}
\* _train_adaptation: adapt_opt.step() over adaptation_loss.parameters(), for
\* the parameters the loss has a gradient for:
\*   MSE    pred = adaptation_module(...)                     the adaptation module
\*   GAN    the prediction is made under no_grad and the generator term reads
\*          the discriminator's label again                   the discriminator
\*   LSGAN  the discriminator reads the prediction            both
\* GAN.forward returns d_loss + g_loss. d_loss is made of the discriminator's
\* labels of the true input and of the prediction made under no_grad; g_loss is
\* made of the "label" entry the discriminator wrote before hold_out_net was
\* entered, which the adaptation module does not rewrite. The modules whose
\* parameters get a gradient from each term:
GanGradient(term) ==
  CASE term = "d_loss" -> {"discriminator"}
    [] term = "g_loss" -> {"discriminator"}
AdaptStepWritesEncoderToo(loss) ==
  {"adaptation_module", "encoder"}
AdaptStepWrites(loss) ==
  CASE loss = "mse" -> {"adaptation_module"}
    [] loss = "gan" -> {"discriminator"}
    [] loss = "lsgan" -> {"adaptation_module", "discriminator"}
Step(params, written) ==
  [m \in Modules |-> IF m \in written THEN params[m] + 1 ELSE params[m]]

\* the keys of the collected batch: forward drops "_feature", "loc", "scale";
\* _train_adaptation adds "context" with the encoder
BatchKeys == {"observation", "observation_h", "intrinsics", "context"}

\* ---- forward.  The networks, as injective functions of their inputs:
EncoderNet(intrinsics) == 2 * intrinsics + 1
AdaptationNet(observation_h) == observation_h + 4
FeatureNet(observation) == observation + 1
Condition(feature, context) == 100 * feature + context
ActorHead(feature) == feature
Absent == -1
\* self.actor(tensordict): _feature from the observation, conditioned on
\* "context", then loc (the action distribution)
ActorModule(td) ==
  LET f == Condition(FeatureNet(td["observation"]), td["context"]) IN
  [td EXCEPT !["_feature"] = f, !["loc"] = ActorHead(f)]
EncoderModule(td) == [td EXCEPT !["context"] = EncoderNet(td["intrinsics"])]
AdaptationModule(td, key) == [td EXCEPT ![key] = AdaptationNet(td["observation_h"])]
forward(phase, key, td) ==
  CASE phase = "encoder" -> ActorModule(EncoderModule(td))
    [] phase = "adaptation" ->
         LET t1 == AdaptationModule(td, key)
             t2 == IF key # "context" THEN EncoderModule(t1) ELSE t1
         IN ActorModule(t2)
    [] OTHER -> td
ForwardInputs ==
  {[k \in {"observation", "observation_h", "intrinsics", "context", "_feature", "loc"} |->
      CASE k = "observation" -> o [] k = "observation_h" -> h [] k = "intrinsics" -> i
        [] OTHER -> Absent] : o \in {0, 1}, h \in {0, 1}, i \in {0, 1}}

NoError == [type |-> "none", at |-> "none"]
NoForward == [a |-> 0, b |-> 0, dist_a |-> Absent, dist_b |-> Absent]
NoParams == [m \in Modules |-> 0]

AdInit ==
  /\ ad_route \in {"PPOConfig", "DictConfig"}
  /\ ad_cfg \in [condition_mode : ConditionModes, adaptation_key : AdaptationKeys,
                  phase : Phases, adaptation_loss : AdaptationLosses,
                  ppo_epochs : 1..MaxEpochs, num_minibatches : 1..MaxMinibatches]
  /\ ad_pc = "new"
  /\ ad_phase = "unset"
  /\ ad_params = NoParams
  /\ ad_done = 0
  /\ ad_log = <<>>
  /\ ad_error = NoError
  /\ ad_start = [params |-> NoParams, phase |-> "unset"]
  /\ ad_calls = 0
  /\ ad_fwd = NoForward

\* PPOConfig(...): the dataclass runs __post_init__
MakePPOConfig ==
  /\ ad_pc = "new" /\ ad_route = "PPOConfig"
  /\ IF PostInitPasses(ad_cfg)
       THEN ad_pc' = "cfg" /\ UNCHANGED ad_error
       ELSE ad_pc' = "failed" /\ ad_error' = [type |-> "AssertionError", at |-> "config"]
  /\ UNCHANGED <<ad_route, ad_cfg, ad_phase, ad_params, ad_done, ad_log, ad_start,
                 ad_calls, ad_fwd>>
  /\ UNCHANGED notAdVars

\* scripts/train.py: cfg.algo, composed by hydra from the stored schema and the
\* overrides, is handed to the policy class; no __post_init__ runs on it
ComposeConfig ==
  /\ ad_pc = "new" /\ ad_route = "DictConfig"
  /\ ad_pc' = "cfg"
  /\ UNCHANGED <<ad_route, ad_cfg, ad_phase, ad_params, ad_done, ad_log, ad_error,
                 ad_start, ad_calls, ad_fwd>>
  /\ UNCHANGED notAdVars

\* PPOAdaptivePolicy.__init__
Construct ==
  /\ ad_pc = "cfg"
  /\ IF ConstructionError(ad_cfg) = "none"
       THEN /\ ad_pc' = "ready"
            /\ ad_phase' = ad_cfg.phase
            /\ UNCHANGED ad_error
       ELSE /\ ad_pc' = "failed"
            /\ ad_error' = [type |-> ConstructionError(ad_cfg), at |-> "construction"]
            /\ UNCHANGED ad_phase
  /\ UNCHANGED <<ad_route, ad_cfg, ad_params, ad_done, ad_log, ad_start, ad_calls,
                 ad_fwd>>
  /\ UNCHANGED notAdVars

\* forward(tensordict), run on two inputs that agree on the observation and
\* on the observation history
Forward ==
  /\ ad_pc = "ready"
  /\ \E a \in ForwardInputs, b \in ForwardInputs :
       /\ a["observation"] = b["observation"]
       /\ a["observation_h"] = b["observation_h"]
       /\ IF ad_phase \in {"encoder", "adaptation"}
            THEN /\ ad_fwd' = [a |-> a["intrinsics"], b |-> b["intrinsics"],
                               dist_a |-> forward(ad_phase, ad_cfg.adaptation_key, a)["loc"],
                               dist_b |-> forward(ad_phase, ad_cfg.adaptation_key, b)["loc"]]
                 /\ ad_error' = NoError
            ELSE /\ ad_fwd' = NoForward
                 /\ ad_error' = [type |-> "RuntimeError", at |-> "forward"]
  /\ UNCHANGED <<ad_route, ad_cfg, ad_pc, ad_phase, ad_params, ad_done, ad_log,
                 ad_start, ad_calls>>
  /\ UNCHANGED notAdVars

\* train_op(tensordict): the dispatch on self.phase
AdTrainOp ==
  /\ ad_pc = "ready"
  /\ ad_calls < MaxCalls
  /\ ad_calls' = ad_calls + 1
  /\ ad_start' = [params |-> ad_params, phase |-> ad_phase]
  /\ ad_done' = 0
  /\ ad_fwd' = NoForward
  /\ LET routine == TrainOpRoutine(ad_phase) IN
       IF routine = "RuntimeError"
         THEN /\ ad_pc' = "ready"
              /\ ad_log' = <<"raise">>
              /\ ad_error' = [type |-> "RuntimeError", at |-> "train_op"]
         ELSE /\ ad_pc' = routine
              /\ ad_log' = <<routine>>
              /\ ad_error' = NoError
  /\ UNCHANGED <<ad_route, ad_cfg, ad_phase, ad_params>>
  /\ UNCHANGED notAdVars

\* _train_policy up to its loop: advantages, value_norm.update(ret)
AdTrainPolicy ==
  /\ ad_pc = "_train_policy"
  /\ ad_params' = Step(ad_params, TrainPolicyWrites)
  /\ ad_pc' = "update_loop"
  /\ UNCHANGED <<ad_route, ad_cfg, ad_phase, ad_done, ad_log, ad_error, ad_start,
                 ad_calls, ad_fwd>>
  /\ UNCHANGED notAdVars

\* _update(minibatch)
AdUpdate ==
  /\ ad_pc = "update_loop"
  /\ ad_done < ad_cfg.ppo_epochs * ad_cfg.num_minibatches
  /\ ad_params' = Step(ad_params, UpdateWrites)
  /\ ad_done' = ad_done + 1
  /\ ad_log' = Append(ad_log, "_update")
  /\ UNCHANGED <<ad_route, ad_cfg, ad_pc, ad_phase, ad_error, ad_start, ad_calls,
                 ad_fwd>>
  /\ UNCHANGED notAdVars

\* _train_adaptation up to its loop: the encoder is run under no_grad
AdTrainAdaptation ==
  /\ ad_pc = "_train_adaptation"
  /\ ad_pc' = "adapt_loop"
  /\ UNCHANGED <<ad_route, ad_cfg, ad_phase, ad_params, ad_done, ad_log, ad_error,
                 ad_start, ad_calls, ad_fwd>>
  /\ UNCHANGED notAdVars

\* loss = self.adaptation_loss(batch); loss.backward(); self.adapt_opt.step().
\* The loss reads batch[adaptation_key]: KeyError when the batch has no such key.
AdAdaptStep ==
  /\ ad_pc = "adapt_loop"
  /\ ad_done < AdaptationEpochs * ad_cfg.num_minibatches
  /\ IF ad_cfg.adaptation_key \in BatchKeys
       THEN /\ ad_params' = Step(ad_params, AdaptStepWrites(ad_cfg.adaptation_loss))
            /\ ad_done' = ad_done + 1
            /\ ad_log' = Append(ad_log, "adapt_step")
            /\ UNCHANGED <<ad_pc, ad_error>>
       ELSE /\ ad_pc' = "ready"
            /\ ad_log' = Append(ad_log, "raise")
            /\ ad_error' = [type |-> "KeyError", at |-> "train_op"]
            /\ UNCHANGED <<ad_params, ad_done>>
  /\ UNCHANGED <<ad_route, ad_cfg, ad_phase, ad_start, ad_calls, ad_fwd>>
  /\ UNCHANGED notAdVars

\* return of either routine, and of train_op
AdReturn ==
  /\ \/ ad_pc = "update_loop" /\ ad_done = ad_cfg.ppo_epochs * ad_cfg.num_minibatches
     \/ ad_pc = "adapt_loop" /\ ad_done = AdaptationEpochs * ad_cfg.num_minibatches
  /\ ad_pc' = "ready"
  /\ ad_log' = Append(ad_log, "return")
  /\ UNCHANGED <<ad_route, ad_cfg, ad_phase, ad_params, ad_done, ad_error, ad_start,
                 ad_calls, ad_fwd>>
  /\ UNCHANGED notAdVars

AdNext ==
  \/ MakePPOConfig \/ ComposeConfig \/ Construct \/ Forward
  \/ AdTrainOp \/ AdTrainPolicy \/ AdUpdate \/ AdTrainAdaptation \/ AdAdaptStep
  \/ AdReturn

AdIdle ==
  /\ ad_route = "PPOConfig"
  /\ ad_cfg = [condition_mode |-> "cat", adaptation_key |-> "context",
               phase |-> "encoder", adaptation_loss |-> "mse",
               ppo_epochs |-> 1, num_minibatches |-> 1]
  /\ ad_pc = "new"
  /\ ad_phase = "unset"
  /\ ad_params = NoParams
  /\ ad_done = 0
  /\ ad_log = <<>>
  /\ ad_error = NoError
  /\ ad_start = [params |-> NoParams, phase |-> "unset"]
  /\ ad_calls = 0
  /\ ad_fwd = NoForward

\* ========================================= MAPPOPolicy / MASACPolicy.__call__
\* the action distribution the actor network gives an observation: its mode and
\* the values a draw from it can take
ActDistMode(obs) == 10 * obs
ActDistSupport(obs) == {ActDistMode(obs) + d : d \in -1..1}

\* Actor.forward (sac.py:222-232) and Actor.forward of mappo.py (line 467):
\*   action = action_dist.mode if deterministic else action_dist.sample()
ActorForward(obs, deterministic) ==
  IF deterministic THEN {ActDistMode(obs)} ELSE ActDistSupport(obs)

\* MAPPOPolicy.__call__: self.actor(..., deterministic=deterministic)
MAPPOPolicyCall(obs, deterministic) == ActorForward(obs, deterministic)

\* MASACPolicy.__call__: self.actor(actor_input); Actor.forward takes its
\* default deterministic=False
MASACPolicyCall(obs, deterministic) == ActorForward(obs, FALSE)

PolicyCall(policy, obs, deterministic) ==
  IF policy = "MAPPOPolicy" THEN MAPPOPolicyCall(obs, deterministic)
                            ELSE MASACPolicyCall(obs, deterministic)

ActInit ==
  /\ act_policy \in {"MAPPOPolicy", "MASACPolicy"}
  /\ act_obs \in 0..MaxObs
  /\ act_deterministic \in BOOLEAN
  /\ act_returned = <<>>

\* policy(tensordict, deterministic)
Call ==
  /\ Len(act_returned) < MaxActCalls
  /\ \E action \in PolicyCall(act_policy, act_obs, act_deterministic) :
       act_returned' = Append(act_returned, action)
  /\ UNCHANGED <<act_policy, act_obs, act_deterministic>>
  /\ UNCHANGED notActVars

ActNext == Call

\* no policy called
ActIdle ==
  /\ act_policy = "MAPPOPolicy"
  /\ act_obs = 0
  /\ act_deterministic = FALSE
  /\ act_returned = <<>>

\* ================================== MyBuffer.extend / sample from threads
Extenders == {1, 2}

\* the buffer after some extend calls made one after another: a fresh buffer
\* has cursor 0; afterwards the cursor is in 1..max_size, and the length is the
\* cursor until the storage has been filled once
CcInit ==
  /\ cc_max_size \in 2..MaxCapacity
  /\ cc_cursor \in 0..cc_max_size
  /\ cc_len \in {cc_cursor, cc_max_size}
  /\ cc_cursor = 0 => cc_len = 0
  /\ cc_start = cc_cursor
  /\ cc_storage = [sl \in 0..(cc_max_size - 1) |-> 0]
  /\ cc_t \in [Extenders -> 1..cc_max_size]
  /\ cc_t[1] + cc_t[2] <= cc_max_size
  /\ cc_pc = [th \in Extenders |-> "call"]
  /\ cc_index = [th \in Extenders |-> <<>>]
  /\ cc_sample \in [pc : {"call"}, seq_len : 1..MaxSeqLen,
                    len_checked : {0}, len_read : {0}]

\* cursor = (self._cursor + torch.arange(t)) % self.storage.max_size (common.py:31)
CcReadCursor ==
  \E th \in Extenders :
    /\ cc_pc[th] = "call"
    /\ cc_index' = [cc_index EXCEPT ![th] = ExtendIndex(cc_cursor, cc_t[th], cc_max_size)]
    /\ cc_pc' = [cc_pc EXCEPT ![th] = "set"]
    /\ UNCHANGED <<cc_max_size, cc_storage, cc_len, cc_cursor, cc_start, cc_t, cc_sample>>
    /\ UNCHANGED notCcVars

\* index = self.storage.set(cursor, data.permute(1, 0)) (common.py:32)
CcStorageSet ==
  \E th \in Extenders :
    /\ cc_pc[th] = "set"
    /\ cc_storage' = [sl \in DOMAIN cc_storage |->
                        IF sl \in Range(cc_index[th]) THEN th ELSE cc_storage[sl]]
    /\ cc_len' = StorageLen(cc_len, cc_index[th])
    /\ cc_pc' = [cc_pc EXCEPT ![th] = "store"]
    /\ UNCHANGED <<cc_max_size, cc_cursor, cc_start, cc_t, cc_index, cc_sample>>
    /\ UNCHANGED notCcVars

\* self._cursor = cursor[-1].item() + 1 (common.py:33)
CcStoreCursor ==
  \E th \in Extenders :
    /\ cc_pc[th] = "store"
    /\ cc_cursor' = NextCursor(cc_index[th])
    /\ cc_pc' = [cc_pc EXCEPT ![th] = "done"]
    /\ UNCHANGED <<cc_max_size, cc_storage, cc_len, cc_start, cc_t, cc_index, cc_sample>>
    /\ UNCHANGED notCcVars

\* if seq_len > self.storage._len: raise ValueError (common.py:37)
CcSampleCheck ==
  /\ cc_sample.pc = "call"
  /\ cc_sample' = [cc_sample EXCEPT
                     !.pc = IF cc_sample.seq_len > cc_len THEN "raised" ELSE "read",
                     !.len_checked = cc_len]
  /\ UNCHANGED <<cc_max_size, cc_storage, cc_len, cc_cursor, cc_start, cc_t, cc_pc,
                 cc_index>>
  /\ UNCHANGED notCcVars

\* self.storage[:self.storage._len, sub_sample_idx] (common.py:48)
CcSampleRead ==
  /\ cc_sample.pc = "read"
  /\ cc_sample' = [cc_sample EXCEPT !.pc = "done", !.len_read = cc_len]
  /\ UNCHANGED <<cc_max_size, cc_storage, cc_len, cc_cursor, cc_start, cc_t, cc_pc,
                 cc_index>>
  /\ UNCHANGED notCcVars

CcNext == CcReadCursor \/ CcStorageSet \/ CcStoreCursor \/ CcSampleCheck \/ CcSampleRead

\* no thread has called the buffer
CcIdle ==
  /\ cc_max_size = 2
  /\ cc_cursor = 0
  /\ cc_len = 0
  /\ cc_start = 0
  /\ cc_storage = [sl \in 0..1 |-> 0]
  /\ cc_t = [th \in Extenders |-> 1]
  /\ cc_pc = [th \in Extenders |-> "call"]
  /\ cc_index = [th \in Extenders |-> <<>>]
  /\ cc_sample = [pc |-> "call", seq_len |-> 1, len_checked |-> 0, len_read |-> 0]

\* =============================================== the PPO minibatch updates
\* A minibatch is one transition; losses and coefficients are integers.
Abs(x) == IF x < 0 THEN -x ELSE x
Clamp(x, lo, hi) == IF x < lo THEN lo ELSE IF x > hi THEN hi ELSE x

\* nn.MSELoss and nn.HuberLoss(delta), both doubled
MSELoss(input, target) == 2 * (input - target) * (input - target)
HuberLoss(input, target, delta) ==
  LET d == Abs(input - target) IN
  IF d <= delta THEN d * d ELSE 2 * delta * d - delta * delta

critic_loss_fn(variant, cfg, input, target) ==
  CASE variant = "PPOPolicy" -> MSELoss(input, target)
    [] variant = "PPOAdaptivePolicy" -> HuberLoss(input, target, HuberDelta)
    [] variant = "MAPPOPolicy" ->
         IF cfg.use_huber_loss THEN HuberLoss(input, target, cfg.huber_delta)
                               ELSE MSELoss(input, target)

\* b_values + (values - b_values).clamp(-self.clip_param, self.clip_param)
values_clipped(b_values, values, clip_param) ==
  b_values + Clamp(values - b_values, -clip_param, clip_param)

\* the value loss of the variant's update
value_loss_max(variant, cfg, mb) ==
  Max(critic_loss_fn(variant, cfg, mb.ret, mb.value),
      critic_loss_fn(variant, cfg, mb.ret,
                     values_clipped(mb.b_value, mb.value, cfg.clip_param)))
value_loss(variant, cfg, mb) ==
  IF variant = "PPOPolicy"
    THEN critic_loss_fn(variant, cfg, mb.ret, mb.value) * (IF mb.is_init THEN 0 ELSE 1)
    ELSE value_loss_max(variant, cfg, mb)

\* the loss whose gradient reaches the actor
actor_loss(variant, cfg, mb) ==
  IF variant = "MAPPOPolicy"
    THEN LET entropy_loss == -mb.entropy IN
         mb.policy_loss - entropy_loss * cfg.entropy_coef
    ELSE LET entropy_loss == -(cfg.entropy_coef * mb.entropy) IN
         mb.policy_loss + entropy_loss

\* the statements of one update that touch gradients, in program order
UpdateOpsActor(variant) ==
  CASE variant = "PPOPolicy" ->
         << <<"zero_grad", "actor">>, <<"zero_grad", "critic">>,
            <<"backward", "actor">>, <<"backward", "critic">>,
            <<"clip", "actor">>, <<"clip", "critic">>,
            <<"step", "actor">>, <<"step", "critic">> >>
    [] variant = "PPOAdaptivePolicy" ->
         << <<"zero_grad", "actor">>, <<"zero_grad", "critic">>, <<"zero_grad", "encoder">>,
            <<"backward", "actor">>, <<"backward", "critic">>, <<"backward", "encoder">>,
            <<"clip", "actor">>, <<"clip", "critic">>,
            <<"step", "actor">>, <<"step", "critic">>, <<"step", "encoder">> >>
    [] variant = "MAPPOPolicy" ->
         << <<"zero_grad", "actor">>, <<"backward", "actor">>,
            <<"clip_generator", "actor">>, <<"step", "actor">> >>
UpdateOpsCritic(variant) ==
  IF variant = "MAPPOPolicy"
    THEN << <<"backward", "critic">>, <<"clip", "critic">>, <<"step", "critic">>,
            <<"zero_grad", "critic">> >>
    ELSE << >>

Networks == {"actor", "critic", "encoder"}
NoGrad == [grad |-> "none", clipped |-> FALSE]

\* one statement applied to st = [grad, gen, steps]
ApplyOp(st, op) ==
  LET net == op[2] IN
  CASE op[1] = "zero_grad" -> [st EXCEPT !.grad[net] = NoGrad]
    [] op[1] = "backward" ->
         [st EXCEPT !.grad[net] =
            [grad |-> IF st.grad[net].grad = "none" THEN "fresh" ELSE "accumulated",
             clipped |-> FALSE]]
    [] op[1] = "clip" -> [st EXCEPT !.grad[net].clipped = TRUE]
    [] op[1] = "clip_generator" ->
         [st EXCEPT !.grad[net].clipped = (st.gen = "full"), !.gen = "empty"]
    [] op[1] = "step" ->
         [st EXCEPT !.steps = Append(st.steps,
                                     [net |-> net, grad |-> st.grad[net].grad,
                                      clipped |-> st.grad[net].clipped])]
RECURSIVE RunOps(_, _)
RunOps(st, ops) == IF ops = <<>> THEN st ELSE RunOps(ApplyOp(st, Head(ops)), Tail(ops))

\* how the shapes of the minibatch's tensors relate: where is "actor" for
\* advantages / log-probabilities / entropy, "critic" for values / returns
ShapeCases ==
  {[kind |-> "match", where |-> "none"]} \cup
  [kind : {"broadcastable", "incompatible"}, where : {"actor", "critic"}]

\* the exception an update raises on these shapes, and whether the actor part
\* of the update has run by then
ShapeError(variant, shapes) ==
  IF shapes.kind = "match" THEN [type |-> "none", actor_ran |-> TRUE]
  ELSE IF variant = "MAPPOPolicy"
    THEN [type |-> "AssertionError", actor_ran |-> shapes.where = "critic"]
  ELSE IF shapes.kind = "incompatible"
    THEN [type |-> "RuntimeError", actor_ran |-> FALSE]
  ELSE [type |-> "none", actor_ran |-> TRUE]

Minibatches ==
  [ret : 0..MaxValue, b_value : 0..MaxValue, value : 0..MaxValue,
   policy_loss : 0..MaxValue, entropy : 0..MaxEntropy, is_init : BOOLEAN,
   shapes : ShapeCases]
NoMinibatch == [ret |-> 0, b_value |-> 0, value |-> 0, policy_loss |-> 0,
                entropy |-> 0, is_init |-> FALSE,
                shapes |-> [kind |-> "match", where |-> "none"]]
NoUpdate == [value_loss |-> 0, actor_loss |-> 0, error |-> "not called",
             broadcast |-> FALSE]

\* actor_params_list is self.actor.parameters(), a generator made before
\* make_functional(self.actor) takes the parameters out of the module
\* (mappo.py:114-115): what it yields at its first use depends on what
\* make_functional leaves in the module, and at every later use it is exhausted
UpInit ==
  /\ up_variant \in {"PPOPolicy", "PPOAdaptivePolicy", "MAPPOPolicy"}
  /\ up_cfg \in [clip_param : 1..MaxClip, entropy_coef : 0..MaxEntropyCoef,
                 use_huber_loss : BOOLEAN, huber_delta : 1..MaxHuberDelta]
  /\ up_variant # "MAPPOPolicy" => (~up_cfg.use_huber_loss /\ up_cfg.huber_delta = 1)
  /\ up_gen \in {"full", "empty"}
  /\ up_variant # "MAPPOPolicy" => up_gen = "empty"
  /\ up_grad = [n \in Networks |-> NoGrad]
  /\ up_in = NoMinibatch
  /\ up_out = NoUpdate
  /\ up_ops = <<>>
  /\ up_calls = 0

\* _update(minibatch) / update_actor(minibatch), update_critic(minibatch)
Update ==
  /\ up_out = NoUpdate
  /\ up_calls < MaxUpdates
  /\ \E mb \in Minibatches :
       LET err == ShapeError(up_variant, mb.shapes)
           ops == (IF err.actor_ran THEN UpdateOpsActor(up_variant) ELSE <<>>)
                  \o (IF err.type = "none" THEN UpdateOpsCritic(up_variant) ELSE <<>>)
           st == RunOps([grad |-> up_grad, gen |-> up_gen, steps |-> <<>>], ops)
       IN
       /\ (up_variant # "PPOPolicy" => ~mb.is_init)
       /\ up_in' = mb
       /\ up_out' = [value_loss |-> value_loss(up_variant, up_cfg, mb),
                     actor_loss |-> actor_loss(up_variant, up_cfg, mb),
                     error |-> err.type,
                     broadcast |-> mb.shapes.kind = "broadcastable" /\ err.type = "none"]
       /\ up_grad' = st.grad
       /\ up_gen' = st.gen
       /\ up_ops' = st.steps
  /\ up_calls' = up_calls + 1
  /\ UNCHANGED <<up_variant, up_cfg>>
  /\ UNCHANGED notUpVars

\* infos.append(...): on to the next minibatch
UpdateReturn ==
  /\ up_out # NoUpdate
  /\ up_in' = NoMinibatch
  /\ up_out' = NoUpdate
  /\ up_ops' = <<>>
  /\ UNCHANGED <<up_variant, up_cfg, up_gen, up_grad, up_calls>>
  /\ UNCHANGED notUpVars

UpNext == Update \/ UpdateReturn

\* no update made
UpIdle ==
  /\ up_variant = "PPOPolicy"
  /\ up_cfg = [clip_param |-> 1, entropy_coef |-> 0, use_huber_loss |-> FALSE,
               huber_delta |-> 1]
  /\ up_gen = "empty"
  /\ up_grad = [n \in Networks |-> NoGrad]
  /\ up_in = NoMinibatch
  /\ up_out = NoUpdate
  /\ up_ops = <<>>
  /\ up_calls = 0

\* ============================================================ LogOnEpisode
\* _reset = tensordict.get(("next", "done"), torch.ones(...)): the environments
\* whose episode ended, all of them when the tensordict has no such entry
Reset(td, envs) == IF td.has_done THEN td.done ELSE 1..envs

\* if len(self.stats) >= self.n_episodes
FlushDueLate(pending, n_episodes) == pending > n_episodes
FlushDue(pending, n_episodes) == pending >= n_episodes

\* the tensordicts _step can be given: the `done` entry, possibly absent
StepInputs(envs) == [has_done : BOOLEAN, done : SUBSET (1..envs)]

NoStep == [input |-> [has_done |-> FALSE, done |-> {}],
           returned |-> [has_done |-> FALSE, done |-> {}],
           logger_calls |-> -1, stacked |-> 0]

LogInit ==
  /\ log_n \in 1..MaxEpisodes
  /\ log_envs \in 1..MaxLogEnvs
  /\ log_logger \in BOOLEAN
  /\ log_stats = <<>>
  /\ log_records = 0
  /\ log_agg = [id \in 1..MaxRecords |-> 0]
  /\ log_last = NoStep

\* LogOnEpisode._step(tensordict)
LogStep ==
  \E td \in StepInputs(log_envs) :
    LET k == Cardinality(Reset(td, log_envs))
        extended == log_stats \o [j \in 1..k |-> log_records + j]
        flush == k > 0 /\ FlushDue(Len(extended), log_n)
    IN
    /\ log_records + k <= MaxRecords
    /\ td.has_done \/ td.done = {}
    /\ log_records' = log_records + k
    /\ log_stats' = IF flush THEN <<>> ELSE extended
    /\ log_agg' = IF flush
                    THEN [id \in 1..MaxRecords |->
                            IF id \in Range(extended) THEN log_agg[id] + 1 ELSE log_agg[id]]
                    ELSE log_agg
    /\ log_last' = [input |-> td, returned |-> td,
                    logger_calls |-> IF flush /\ log_logger THEN 1 ELSE 0,
                    stacked |-> IF flush THEN Len(extended) ELSE 0]
    /\ UNCHANGED <<log_n, log_envs, log_logger>>
    /\ UNCHANGED notLogVars

LogNext == LogStep

\* no transform made
LogIdle ==
  /\ log_n = 1
  /\ log_envs = 1
  /\ log_logger = FALSE
  /\ log_stats = <<>>
  /\ log_records = 0
  /\ log_agg = [id \in 1..MaxRecords |-> 0]
  /\ log_last = NoStep

\* ========================================================= specifications
InitBuf == BufInit /\ SuIdle /\ MbIdle /\ GaeIdle /\ SacIdle /\ PpoIdle /\ AdIdle /\ SmpIdle /\ ActIdle /\ CcIdle /\ UpIdle /\ LogIdle
SpecBuf == InitBuf /\ [][BufNext]_vars

InitSoftUpdate == SuInit /\ BufIdle /\ MbIdle /\ GaeIdle /\ SacIdle /\ PpoIdle /\ AdIdle /\ SmpIdle /\ ActIdle /\ CcIdle /\ UpIdle /\ LogIdle
SpecSoftUpdate == InitSoftUpdate /\ [][SuNext]_vars

InitMinibatch == MbInit /\ BufIdle /\ SuIdle /\ GaeIdle /\ SacIdle /\ PpoIdle /\ AdIdle /\ SmpIdle /\ ActIdle /\ CcIdle /\ UpIdle /\ LogIdle
SpecMinibatch == InitMinibatch /\ [][MbNext]_vars

InitGAE == GaeInit /\ BufIdle /\ SuIdle /\ MbIdle /\ SacIdle /\ PpoIdle /\ AdIdle /\ SmpIdle /\ ActIdle /\ CcIdle /\ UpIdle /\ LogIdle
SpecGAE == InitGAE /\ [][GaeNext]_vars

InitSAC == SacInit /\ BufIdle /\ SuIdle /\ MbIdle /\ GaeIdle /\ PpoIdle /\ AdIdle /\ SmpIdle /\ ActIdle /\ CcIdle /\ UpIdle /\ LogIdle
SpecSAC == InitSAC /\ [][SacNext]_vars

InitPPO == PpoInit /\ BufIdle /\ SuIdle /\ MbIdle /\ GaeIdle /\ SacIdle /\ AdIdle /\ SmpIdle /\ ActIdle /\ CcIdle /\ UpIdle /\ LogIdle
SpecPPO == InitPPO /\ [][PpoNext]_vars

InitAdapt == AdInit /\ BufIdle /\ SuIdle /\ MbIdle /\ GaeIdle /\ SacIdle /\ PpoIdle /\ SmpIdle /\ ActIdle /\ CcIdle /\ UpIdle /\ LogIdle
SpecAdapt == InitAdapt /\ [][AdNext]_vars

InitSample == BufInit /\ SmpInit /\ SuIdle /\ MbIdle /\ GaeIdle /\ SacIdle /\ PpoIdle /\ AdIdle /\ ActIdle /\ CcIdle /\ UpIdle /\ LogIdle
SpecSample == InitSample /\ [][SmpNext]_vars

InitAct == ActInit /\ BufIdle /\ SuIdle /\ MbIdle /\ GaeIdle /\ SacIdle /\ PpoIdle /\ AdIdle /\ SmpIdle /\ CcIdle /\ UpIdle /\ LogIdle
SpecAct == InitAct /\ [][ActNext]_vars

InitConcurrent == CcInit /\ BufIdle /\ SuIdle /\ MbIdle /\ GaeIdle /\ SacIdle /\ PpoIdle /\ AdIdle /\ SmpIdle /\ ActIdle /\ UpIdle /\ LogIdle
SpecConcurrent == InitConcurrent /\ [][CcNext]_vars

InitUpdate == UpInit /\ BufIdle /\ SuIdle /\ MbIdle /\ GaeIdle /\ SacIdle /\ PpoIdle /\ AdIdle /\ SmpIdle /\ ActIdle /\ CcIdle /\ LogIdle
SpecUpdate == InitUpdate /\ [][UpNext]_vars

InitLog == LogInit /\ BufIdle /\ SuIdle /\ MbIdle /\ GaeIdle /\ SacIdle /\ PpoIdle /\ AdIdle /\ SmpIdle /\ ActIdle /\ CcIdle /\ UpIdle
SpecLog == InitLog /\ [][LogNext]_vars

\* ------------------------------------------------------------------ C1
\* C1: after any sequence of extend calls of 1..capacity steps each, len(buffer)
\* never exceeds the capacity, and the k-th slot index written by an extend
\* is (cursor + k) mod capacity, which lies in [0, capacity).
C1_CapacityInvariant ==
  /\ BufLen <= max_size
  /\ \A k \in 1..Len(lastIndex) :
       /\ lastIndex[k] = (prevBuf.cursor + (k - 1)) % max_size
       /\ lastIndex[k] \in 0..(max_size - 1)

\* an extend that started at the last slot and wrapped around a full buffer
C1_Witness ==
  /\ max_size >= 3
  /\ Len(lastIndex) >= 2
  /\ lastIndex[1] = max_size - 1
  /\ lastIndex[2] = 0
  /\ BufLen = max_size

\* ------------------------------------------------------------------ C2
StoredIds == {storage[s] : s \in DOMAIN storage} \ {0}

\* C2: the buffer holds exactly the most recent min(inserted, capacity) steps;
\* an extend on a full buffer overwrites the oldest steps first, oldest to
\* newest, and leaves every slot it does not write unchanged; with capacity 4
\* the insert that follows the 4th step goes to index 0 and indices 1..3 keep
\* their entries.
C2_OldestFirst ==
  /\ StoredIds = (inserted - Min(inserted, max_size) + 1)..inserted
  /\ BufLen = Min(inserted, max_size)
  /\ \A s \in DOMAIN storage :
       s \notin Range(lastIndex) => storage[s] = prevBuf.storage[s]
  /\ prevBuf.len = max_size =>
       \A k \in 1..Len(lastIndex) :
         /\ prevBuf.storage[lastIndex[k]] = prevBuf.inserted - max_size + k
         /\ storage[lastIndex[k]] = prevBuf.inserted + k
  /\ (max_size = 4 /\ prevBuf.inserted = 4 /\ inserted = 5) =>
       /\ lastIndex = <<0>>
       /\ storage[0] = 5
       /\ \A s \in 1..3 : storage[s] = prevBuf.storage[s]

\* capacity 4, four stored steps, the 5th insert has just overwritten index 0
C2_Witness ==
  /\ max_size = 4
  /\ prevBuf.inserted = 4
  /\ prevBuf.storage = [s \in 0..3 |-> s + 1]
  /\ inserted = 5
  /\ storage = [s \in 0..3 |-> IF s = 0 THEN 5 ELSE s + 1]

\* ------------------------------------------------------------------ C3
Flatten(mbs) ==
  [i \in 1..(Len(mbs) * (IF Len(mbs) = 0 THEN 0 ELSE Len(mbs[1]))) |->
     mbs[((i - 1) \div Len(mbs[1])) + 1][((i - 1) % Len(mbs[1])) + 1][1]]

EpochDone == mb_pc \in {"exhausted", "raised"}
FlatCase == mb_seq_len = 1
BatchSize == mb_N * mb_T

\* the original statement, for every batch size B and every n
C3_PartitionAnyBatch ==
  (EpochDone /\ FlatCase) =>
    /\ Len(mb_yielded) = mb_n
    /\ \A m \in 1..Len(mb_yielded) : Len(mb_yielded[m]) = BatchSize \div mb_n
    /\ \A x \in 0..((BatchSize \div mb_n) * mb_n - 1) :
         Cardinality({i \in DOMAIN Flatten(mb_yielded) : Flatten(mb_yielded)[i] = x}) = 1

\* C3 (amended): for a flattened batch of B >= n transitions, every epoch's
\* make_batch / make_dataset_naive yields exactly n minibatches of floor(B/n)
\* transitions each, every index in 0 .. floor(B/n)*n - 1 is in exactly one
\* minibatch, and the transitions left out are the trailing B mod n ones
\* whatever the permutation; for B < n the call raises and yields nothing.
C3_Partition ==
  /\ (FlatCase /\ BatchSize >= mb_n) =>
       /\ mb_pc # "raised"
       /\ \A m \in 1..Len(mb_yielded) :
            /\ Len(mb_yielded[m]) = BatchSize \div mb_n
            /\ \A j \in 1..Len(mb_yielded[m]) : Len(mb_yielded[m][j]) = 1
       /\ Len(mb_yielded) + Len(mb_rows) = (IF mb_pc = "call" THEN 0 ELSE mb_n)
       /\ \A x \in 0..(BatchSize - 1) :
            Cardinality({i \in DOMAIN Flatten(mb_yielded) : Flatten(mb_yielded)[i] = x})
              <= 1
       /\ mb_pc = "exhausted" =>
            /\ Len(mb_yielded) = mb_n
            /\ Range(Flatten(mb_yielded)) = 0..((BatchSize \div mb_n) * mb_n - 1)
            /\ (0..(BatchSize - 1)) \ Range(Flatten(mb_yielded))
                 = (BatchSize - (BatchSize % mb_n))..(BatchSize - 1)
  /\ (FlatCase /\ BatchSize < mb_n) =>
       /\ mb_pc \in {"call", "raised"}
       /\ mb_yielded = <<>>

\* a second epoch over 4 transitions in 3 minibatches has been yielded in full:
\* transition 3 is left out
C3_Witness ==
  /\ FlatCase /\ BatchSize = 4 /\ mb_n = 3
  /\ mb_epoch = 2 /\ mb_pc = "exhausted"
  /\ Range(Flatten(mb_yielded)) = 0..2
  /\ mb_yielded[1][1] # <<0>>

\* ------------------------------------------------------------------ C4
RECURSIVE Pow(_, _)
Pow(b, e) == IF e = 0 THEN 1 ELSE b * Pow(b, e - 1)
RECURSIVE DiscountedSum(_, _, _)
\* sum over k = t .. Len(r) of gamma^(k-t) * r[k]
DiscountedSum(r, gamma, t) ==
  IF t > Len(r) THEN 0 ELSE r[t] + gamma * DiscountedSum(r, gamma, t + 1)

GaeT == Len(gae_in.rewards)
\* the values the estimator is given: the critic's, denormalized
GaeValue(t) ==
  IF gae_path = "ppo" THEN gae_in.V[t]
  ELSE gae_in.V[t] * gae_in.stats.std + gae_in.stats.mean
NoFlags == \A t \in 1..GaeT : gae_in.dones[t] = 0 /\ gae_in.terms[t] = 0

\* C4: with lmbda = 1 and no done or termination flag set, advantage[t] is the
\* discounted sum of the remaining rewards plus the discounted bootstrap value
\* minus value[t], and return[t] = advantage[t] + value[t]; rewards [1,1,1],
\* gamma = 1, values [0,0,0], bootstrap 0 give advantage = return = [3,2,1].
C4_MonteCarlo ==
  (gae_pc = "done" /\ gae_in.lmbda = 1 /\ NoFlags) =>
    /\ Len(gae_out.adv) = GaeT /\ Len(gae_out.ret) = GaeT
    /\ \A t \in 1..GaeT :
         /\ gae_out.adv[t] = DiscountedSum(gae_in.rewards, gae_in.gamma, t)
                               + Pow(gae_in.gamma, GaeT - t + 1) * GaeValue(GaeT + 1)
                               - GaeValue(t)
         /\ gae_out.ret[t] = gae_out.adv[t] + GaeValue(t)
    /\ (/\ gae_in.rewards = <<1, 1, 1>> /\ gae_in.gamma = 1
        /\ \A t \in 1..(GaeT + 1) : GaeValue(t) = 0) =>
         /\ gae_out.adv = <<3, 2, 1>>
         /\ gae_out.ret = <<3, 2, 1>>

\* end-to-end scenario 1 has been computed by PPOPolicy._compute_advantage
C4_Witness ==
  /\ gae_pc = "done" /\ gae_path = "ppo" /\ gae_in.lmbda = 1 /\ NoFlags
  /\ gae_in.rewards = <<1, 1, 1>> /\ gae_in.gamma = 1
  /\ gae_in.V = <<0, 0, 0, 0>>
  /\ gae_out.adv = <<3, 2, 1>>

\* ------------------------------------------------------------------ C5
\* C5: at every step t with done[t] = 1, advantage[t] = reward[t] - value[t]:
\* neither advantage[t+1] nor the next or bootstrap value contributes,
\* whatever term[t] and the later steps are.
C5_DoneBoundary ==
  gae_pc = "done" =>
    \A t \in 1..GaeT :
      gae_in.dones[t] = 1 => gae_out.adv[t] = gae_in.rewards[t] - GaeValue(t)

\* done at a step with term = 0 whose successor has a non-zero advantage and a
\* non-zero value, with lmbda = 1
C5_Witness ==
  /\ gae_pc = "done" /\ gae_path = "ppo" /\ gae_in.lmbda = 1 /\ GaeT >= 2
  /\ gae_in.dones[1] = 1 /\ gae_in.terms[1] = 0
  /\ gae_out.adv[2] # 0 /\ gae_in.V[2] # 0
  /\ gae_out.adv[1] = gae_in.rewards[1] - gae_in.V[1]

\* ------------------------------------------------------------------ C6
SacEvents(kind) == {i \in DOMAIN sac_log : sac_log[i][1] = kind}
SacStepsOf(kind) == {sac_log[i][2] : i \in SacEvents(kind)}
SacUpdateKinds == {"sample", "read_target", "critic", "actor", "alpha", "soft_update"}

\* C6: every train_op call first stores the incoming batch; while the buffer
\* then holds fewer transitions than the warm-up size the call samples nothing,
\* updates no critic, actor, temperature or target critic and returns an empty
\* mapping; sampling and updates happen only with the buffer at the warm-up size.
C6_WarmupGating ==
  /\ (sac_pc # "idle" \/ sac_result # "none") =>
       /\ sac_log # <<>>
       /\ sac_log[1] = <<"extend", 0>>
       /\ SacEvents("extend") = {1}
  /\ rb_len < sac_cfg.buffer_size =>
       /\ \A i \in DOMAIN sac_log : sac_log[i][1] \notin SacUpdateKinds
       /\ SacParams = sac_start
       /\ sac_pc \in {"idle", "stored"}
       /\ sac_result \in {"none", "empty"}
       /\ (sac_pc = "idle" /\ sac_log # <<>>) => sac_result = "empty"
  /\ (\E i \in DOMAIN sac_log : sac_log[i][1] \in SacUpdateKinds) =>
       rb_len >= sac_cfg.buffer_size

\* a call on a buffer that holds data but is below the warm-up size has returned
C6_Witness ==
  /\ sac_pc = "idle" /\ sac_result = "empty"
  /\ rb_len >= 1 /\ rb_len < sac_cfg.buffer_size
  /\ sac_log = <<<<"extend", 0>>>>

\* ------------------------------------------------------------------ C7
SacRanAllSteps == sac_pc = "idle" /\ sac_result \in {"infos", "RuntimeError"}

\* C7: in a call that runs G gradient steps (numbered from 1) the critic is
\* updated on every step and the actor and the temperature exactly on every
\* N-th step (N = actor_delay): floor(G/N) actor updates, each paired with one
\* temperature update and each after that step's critic update.
C7_ActorEveryNthStep ==
  SacRanAllSteps =>
    /\ SacStepsOf("critic") = 1..sac_cfg.gradient_steps
    /\ Cardinality(SacEvents("critic")) = sac_cfg.gradient_steps
    /\ SacStepsOf("actor") =
         {g \in 1..sac_cfg.gradient_steps : g % sac_cfg.actor_delay = 0}
    /\ Cardinality(SacEvents("actor")) = sac_cfg.gradient_steps \div sac_cfg.actor_delay
    /\ \A i \in SacEvents("actor") :
         /\ i < Len(sac_log) /\ sac_log[i + 1] = <<"alpha", sac_log[i][2]>>
         /\ \E j \in SacEvents("critic") : j < i /\ sac_log[j][2] = sac_log[i][2]
    /\ Cardinality(SacEvents("alpha")) = Cardinality(SacEvents("actor"))

\* ------------------------------------------------------------------ C8
\* gradient steps whose body has run to its end
SacCompletedSteps ==
  IF sac_pc = "loop" \/ SacRanAllSteps THEN gradient_step
  ELSE IF gradient_step = 0 THEN 0 ELSE gradient_step - 1

C8_SoftUpdateOrder ==
  /\ SacStepsOf("soft_update") \cap (1..SacCompletedSteps) =
       {g \in 1..SacCompletedSteps : TargetDue(g, sac_cfg.target_update_interval)}
  /\ \A i \in SacEvents("soft_update") :
       LET g == sac_log[i][2] IN
       /\ TargetDue(g, sac_cfg.target_update_interval)
       /\ \A j \in SacEvents("soft_update") : sac_log[j][2] = g => j = i
       /\ \E j \in SacEvents("critic") : j < i /\ sac_log[j][2] = g
       /\ \A j \in DOMAIN sac_log :
            (sac_log[j][1] \in {"critic", "actor", "alpha"} /\ sac_log[j][2] = g) => j < i
       /\ ActorDue(g, sac_cfg.actor_delay) =>
            \E j \in SacEvents("alpha") : j < i /\ sac_log[j][2] = g
       /\ \A j \in SacEvents("read_target") : sac_log[j][2] > g => j > i

\* C8: the target-critic parameters change only in the soft-update step, which
\* runs exactly at the gradient steps that are multiples of
\* target_update_interval, after that step's critic and actor optimizer steps
\* and before the next gradient step reads the target critic; no optimizer
\* step changes the target-critic parameters.
C8_TargetSingleWriter ==
  /\ []C8_SoftUpdateOrder
  /\ [][critic_target' # critic_target =>
          /\ sac_pc = "target?" /\ sac_pc' = "loop"
          /\ TargetDue(gradient_step, sac_cfg.target_update_interval)
          /\ critic_target' = soft_update(critic_target, critic, sac_cfg.tau)
          /\ UNCHANGED <<critic, actor, log_alpha>>]_vars

\* a soft update with tau = 1 has moved the target onto a critic that the
\* optimizer had stepped away from it, in the second gradient step of a call
C8_Witness ==
  /\ sac_pc = "loop" /\ gradient_step = 2
  /\ sac_log[Len(sac_log)] = <<"soft_update", 2>>
  /\ sac_cfg.target_update_interval = 2 /\ sac_cfg.tau = 1
  /\ critic_target = critic
  /\ critic_target # sac_start.critic_target

\* ------------------------------------------------------------------ C9
\* C9: soft_update sets every target parameter to tau*source + (1-tau)*target,
\* position by position; with tau = 1 the target equals the source after one
\* call, as after hard_update; the source parameters are not modified.
C9_SoftUpdate ==
  su_pc = "soft" =>
    /\ Len(su_target) = Len(su_prev.target)
    /\ \A i \in 1..Len(su_target) :
         su_target[i] = su_tau * su_prev.source[i] + (1 - su_tau) * su_prev.target[i]
    /\ su_source = su_prev.source
    /\ su_tau = 1 =>
         /\ su_target = su_source
         /\ su_target = hard_update(su_prev.target, su_prev.source)

\* tau = 1 on a target that differed from the source in every parameter
C9_Witness ==
  /\ su_pc = "soft"
  /\ su_tau = 1
  /\ \A i \in 1..Len(su_target) : su_prev.target[i] # su_prev.source[i]
  /\ su_target = su_source

\* ---------------------------------------------------------------- C10
LogCount(kind) == Cardinality({i \in 1..Len(ppo_log) : ppo_log[i] = kind})
PpoLogged(kind) == LogCount(kind) > 0
PpoReturned == ppo_pc = 0 /\ PpoLogged("return")
\* the call runs the policy-training routine of a policy that holds a normalizer
PolicyRoutineWithNormalizer ==
  \/ ppo_variant = "ppo"
  \/ ppo_variant = "mappo" /\ ppo_cfg.value_norm
  \/ ppo_variant = "ppo_adapt" /\ ppo_cfg.phase = "encoder"
\* what the call is to compute, from the batch and the statistics at its start
PpoT == Len(ppo_batch.rewards)
ExpectedValues ==
  IF FakeNorm THEN StateValues(ppo_batch.V, PpoT)
  ELSE VNDenormalize(ppo_start, StateValues(ppo_batch.V, PpoT))
ExpectedNext ==
  IF FakeNorm THEN NextStateValues(ppo_batch.V, PpoT)
  ELSE VNDenormalize(ppo_start, <<ppo_batch.V[PpoT + 1]>>)
ExpectedGae ==
  IF ppo_variant = "ppo"
    THEN GAE(ppo_batch.rewards, ppo_batch.terms, ppo_batch.dones,
             ExpectedValues, ExpectedNext, 1, 1)
    ELSE compute_gae(ppo_batch.rewards, ppo_batch.dones, ExpectedValues,
                     ExpectedNext[1], 1, 1)
ExpectedStats ==
  IF FakeNorm THEN ppo_start ELSE VNUpdate(ppo_start, ExpectedGae.ret)
ExpectedReturns ==
  IF FakeNorm THEN ExpectedGae.ret ELSE VNNormalize(ExpectedStats, ExpectedGae.ret)

PpoLast(kind) == ppo_log # <<>> /\ ppo_log[Len(ppo_log)] = kind
ValueNormOrdering ==
  /\ LogCount("update") <= 1
  /\ PpoReturned => LogCount("update") = 1
  /\ ~PpoLogged("update") => vn_stats = ppo_start
  \* denormalized with the statistics as they were before this call's update
  /\ PpoLast("denormalize") =>
       /\ ppo_values = ExpectedValues
       /\ ppo_next = ExpectedNext
  \* GAE runs on the denormalized values
  /\ PpoLast("gae") =>
       /\ PpoLogged("denormalize")
       /\ ppo_values = ExpectedValues
       /\ ppo_next = ExpectedNext
       /\ ppo_ret = ExpectedGae.ret
  \* the update is fed the returns of GAE
  /\ PpoLast("update") =>
       /\ PpoLogged("gae") /\ ~PpoLogged("normalize")
       /\ vn_stats = ExpectedStats
  \* the returns are normalized after the update, with the updated statistics
  /\ PpoLast("normalize") =>
       /\ PpoLogged("update")
       /\ ppo_ret = ExpectedReturns
  \* every minibatch update comes after the normalization
  /\ PpoLast("minibatch") => PpoLogged("normalize")
\* the statistics are written by the update step only
StatsWrittenByUpdate ==
  vn_stats' # vn_stats => ppo_log' = Append(ppo_log, "update")

\* C10 as stated: in each train_op call of each PPO variant the statistics are
\* updated exactly once, the values and the bootstrap value are denormalized
\* with the statistics from before that update, the update is fed the GAE
\* returns of those values, the returns are normalized after the update, and
\* no minibatch update changes the statistics.
C10_EveryTrainOp == []ValueNormOrdering /\ [][StatsWrittenByUpdate]_vars

\* C10, amended: the ordering holds in every train_op call that runs the
\* policy-training routine of a policy holding a value normalizer (PPOPolicy,
\* MAPPOPolicy configured with value_norm, PPOAdaptivePolicy in the encoder
\* phase); the other calls (MAPPOPolicy without value_norm, PPOAdaptivePolicy
\* in the adaptation phase) never update the statistics and leave them as
\* they were.
C10_ValueNormOrdering ==
  /\ [](PolicyRoutineWithNormalizer => ValueNormOrdering)
  /\ [](~PolicyRoutineWithNormalizer =>
         LogCount("update") = 0 /\ vn_stats = ppo_start)
  /\ [][StatsWrittenByUpdate]_vars
C10_Witness ==
  /\ ppo_pc = Len(PpoSteps) + 1
  /\ ppo_variant = "ppo_adapt" /\ ppo_cfg.phase = "encoder"
  /\ ppo_start # [mean |-> 0, std |-> 1]
  /\ vn_stats # ppo_start
  /\ LogCount("update") = 1
  /\ LogCount("minibatch") >= 2
  /\ ppo_ret = ExpectedReturns

\* ---------------------------------------------------------------- C11
AdCount(kind) == Cardinality({i \in 1..Len(ad_log) : ad_log[i] = kind})
AdConstructed == ad_pc \notin {"new", "cfg", "failed"}
AdRoutine == IF ad_log = <<>> THEN "none" ELSE ad_log[1]
AdReturned == ad_log # <<>> /\ ad_log[Len(ad_log)] = "return"

\* C11: every PPOAdaptivePolicy.train_op call runs exactly one of the policy
\* routine and the adaptation routine, the one named by the phase given at
\* construction; self.phase never changes after construction; with a phase
\* that is neither "encoder" nor "adaptation", train_op and forward raise
\* RuntimeError and no parameter is ever updated.
C11_PhaseExclusivity ==
  AdConstructed =>
    /\ ad_phase = ad_cfg.phase
    /\ ad_start.phase \in {"unset", ad_cfg.phase}
    /\ AdRoutine = "_train_policy" => ad_phase = "encoder" /\ AdCount("adapt_step") = 0
    /\ AdRoutine = "_train_adaptation" => ad_phase = "adaptation" /\ AdCount("_update") = 0
    /\ (ad_calls > 0 /\ ad_phase = "encoder") => AdRoutine = "_train_policy"
    /\ (ad_calls > 0 /\ ad_phase = "adaptation") => AdRoutine = "_train_adaptation"
    /\ AdReturned =>
         \/ AdRoutine = "_train_policy"
              /\ AdCount("_update") = ad_cfg.ppo_epochs * ad_cfg.num_minibatches
         \/ AdRoutine = "_train_adaptation"
              /\ AdCount("adapt_step") = AdaptationEpochs * ad_cfg.num_minibatches
    /\ ad_phase \notin {"encoder", "adaptation"} =>
         /\ ad_params = NoParams
         /\ ad_fwd = NoForward
         /\ ad_calls > 0 => ad_log = <<"raise">>
         /\ ad_error \in {NoError, [type |-> "RuntimeError", at |-> "train_op"],
                          [type |-> "RuntimeError", at |-> "forward"]}
C11_Witness ==
  /\ ad_phase = "finetune"
  /\ ad_calls = 1 /\ ad_log = <<"raise">>
  /\ ad_error = [type |-> "RuntimeError", at |-> "forward"]
  /\ ad_params = NoParams

\* ---------------------------------------------------------------- C12
Unchanged(ms) == \A m \in ms : ad_params[m] = ad_start.params[m]

\* C12: a train_op call in the adaptation phase changes only the parameters
\* of the adaptation module, and of the discriminator when the loss is
\* adversarial, and leaves the actor, the critic, the context encoder and the
\* value-normalizer statistics as they were; a call in the encoder phase
\* leaves the adaptation module and the discriminator as they were.
C12_PhaseFrame ==
  /\ AdRoutine = "_train_adaptation" =>
       /\ Unchanged({"actor", "critic", "encoder", "value_norm"})
       /\ ad_cfg.adaptation_loss = "mse" => Unchanged({"discriminator"})
  /\ AdRoutine = "_train_policy" => Unchanged({"adaptation_module", "discriminator"})
C12_Witness ==
  /\ AdRoutine = "_train_adaptation" /\ AdReturned
  /\ ad_cfg.adaptation_loss = "lsgan"
  /\ ad_params["adaptation_module"] = AdaptationEpochs * ad_cfg.num_minibatches
  /\ ad_params["discriminator"] = AdaptationEpochs * ad_cfg.num_minibatches
  /\ ad_cfg.num_minibatches > 1

\* ---------------------------------------------------------------- C13
\* C13: in the adaptation phase, for every allowed adaptation_key, two inputs
\* of forward that agree on the observation and on the observation history
\* get the same action distribution, whatever their privileged intrinsics.
C13_NoPrivilegedInput ==
  (AdConstructed /\ ad_phase = "adaptation" /\ ad_fwd # NoForward) =>
    ad_fwd.dist_a = ad_fwd.dist_b

\* ---------------------------------------------------------------- C18
InvalidChoice(cfg) ==
  \/ cfg.condition_mode \notin {"cat", "film"}
  \/ cfg.adaptation_loss \notin {"mse", "gan", "lsgan"}
  \/ cfg.phase \notin {"encoder", "adaptation"}

\* C18: an invalid condition mode, adaptation loss or phase is rejected when
\* the configuration or the policy is constructed: no policy object exists
\* with such a choice, and no train_op or forward call is the first to raise
\* on it.
C18_FailAtConstruction ==
  InvalidChoice(ad_cfg) =>
    /\ ~AdConstructed
    /\ ad_error.at \notin {"train_op", "forward"}

\* ------------------------------------------------------------------ C14
WindowCase == mb_fn = "make_dataset_naive" /\ mb_seq_len > 1
\* the rows yielded so far in this epoch, in the order yielded
YieldedRows ==
  {mj \in (1..MaxMinibatches) \X (1..MaxBatch) :
     mj[1] <= Len(mb_yielded) /\ mj[2] <= Len(mb_yielded[mj[1]])}
\* w is seq_len consecutive steps t0 .. t0 + seq_len - 1 of one environment
IsWindow(w) ==
  /\ Len(w) = mb_seq_len
  /\ \E env \in 0..(mb_N - 1) : \E t0 \in 0..(mb_T - mb_seq_len) :
       \A j \in 1..mb_seq_len : w[j] = env * mb_T + t0 + (j - 1)

\* C14: when seq_len > 1, every row of every minibatch yielded by
\* make_dataset_naive is a window of exactly seq_len steps of one environment at
\* consecutive time indices in ascending order, and no step occurs in two
\* windows of the same epoch.
C14_WholeWindows ==
  WindowCase =>
    /\ \A mj \in YieldedRows : IsWindow(mb_yielded[mj[1]][mj[2]])
    /\ \A mj \in YieldedRows : \A mk \in YieldedRows :
         mj # mk =>
           Range(mb_yielded[mj[1]][mj[2]]) \cap Range(mb_yielded[mk[1]][mk[2]]) = {}

\* two environments of three steps in windows of two: the epoch yielded the
\* window of environment 1 before the window of environment 0, and the third
\* step of each environment is in no window
C14_Witness ==
  /\ WindowCase /\ mb_N = 2 /\ mb_T = 3 /\ mb_seq_len = 2 /\ mb_n = 2
  /\ mb_pc = "exhausted"
  /\ mb_yielded = << << <<3, 4>> >>, << <<0, 1>> >> >>

\* ------------------------------------------------------------------ C15
\* the stored entries (environment, slot) the i-th sub-trajectory of the batch holds
Entries(i) == {<<smp_out.batch[i].env, sl>> : sl \in Range(smp_out.batch[i].index)}

\* C15 (as stated): within the batch returned by one sample call, no stored
\* entry is selected more than once.
C15_NoRepeat ==
  smp_out.kind = "batch" =>
    \A i \in DOMAIN smp_out.batch : \A j \in DOMAIN smp_out.batch :
      i # j => Entries(i) \cap Entries(j) = {}

\* ------------------------------------------------------------------ C16
SampleStep == <<smp_call, smp_out, smp_prev>>' # <<smp_call, smp_out, smp_prev>>
C16_Raise ==
  /\ smp_out.kind = "ValueError" =>
       /\ smp_call.seq_len > smp_call.len
       /\ smp_out.read = {}
       /\ smp_out.batch = <<>>
  /\ smp_out.kind \in {"batch", "RuntimeError"} => smp_call.seq_len <= smp_call.len
C16_Later ==
  smp_out.kind = "batch" =>
    /\ Len(smp_out.batch) = smp_call.batch_size
    /\ \A i \in DOMAIN smp_out.batch :
         /\ Len(smp_out.batch[i].index) = smp_call.seq_len
         /\ Range(smp_out.batch[i].index) \subseteq 0..(smp_call.len - 1)
         /\ smp_out.batch[i].env \in 0..(smp_N - 1)
C16_Frame == SampleStep => UNCHANGED bufVars

\* C16: MyBuffer.sample called with seq_len greater than the buffer's valid
\* length raises ValueError before reading any data and leaves the stored
\* entries, the length and the cursor unchanged; whatever call came before, a
\* sample that returns a batch returns batch_size sub-trajectories of seq_len
\* valid slots each.
C16_CapacityErrorRecoverable ==
  [](C16_Raise /\ C16_Later) /\ [][C16_Frame]_vars

\* a sample on a buffer holding steps failed with ValueError, and the next
\* sample returned a batch
C16_Witness ==
  /\ smp_prev = "ValueError"
  /\ smp_out.kind = "batch"
  /\ smp_call.len >= 2

\* ------------------------------------------------------------------ C17
SacAborted == sac_pc = "idle" /\ sac_result = "AssertionError"
SacOptimizerSteps == {"critic", "actor", "alpha", "soft_update"}

\* C17: if the bootstrapped target of a gradient step of MASACPolicy.train_op is
\* not finite, the call aborts there, before the critic forward / backward pass
\* of that step: no critic, actor, temperature or target-critic update is made
\* with or after the corrupted target in that call.
C17_NonFiniteTargetFatal ==
  SacAborted =>
    /\ sac_log[Len(sac_log)] = <<"read_target", gradient_step>>
    /\ \A i \in DOMAIN sac_log :
         sac_log[i][1] \in SacOptimizerSteps => sac_log[i][2] < gradient_step
    /\ infos_critic = gradient_step - 1
    /\ gradient_step = 1 => SacParams = sac_start

\* the target of the second of three gradient steps was not finite: the first
\* step's critic update stands, and nothing was updated after it
C17_Witness ==
  /\ SacAborted
  /\ sac_cfg.gradient_steps = 3
  /\ gradient_step = 2
  /\ <<"critic", 1>> \in Range(sac_log)
  /\ critic # sac_start.critic

\* ------------------------------------------------------------------ C19
\* C19 (as stated): a policy called with deterministic=True returns the mode of
\* the action distribution, so calls with the same observation and unchanged
\* parameters return the same action, for MAPPOPolicy and for MASACPolicy.
C19_DeterministicMode ==
  act_deterministic =>
    \A i \in DOMAIN act_returned : act_returned[i] = ActDistMode(act_obs)

\* ------------------------------------------------------------------ C20
BothExtended == \A th \in Extenders : cc_pc[th] = "done"

\* C20 (as stated): for any interleaving of two concurrent extend calls
\* inserting a and b steps, a + b <= capacity, the calls write a + b distinct
\* slots and the cursor advances by a + b.
C20_ExtendsExclusive ==
  BothExtended =>
    /\ Range(cc_index[1]) \cap Range(cc_index[2]) = {}
    /\ Cardinality({sl \in DOMAIN cc_storage : cc_storage[sl] # 0}) = cc_t[1] + cc_t[2]
    /\ cc_cursor = ((cc_start + cc_t[1] + cc_t[2] - 1) % cc_max_size) + 1

\* ------------------------------------------------------------------ C21
Updated == up_out # NoUpdate /\ up_out.error = "none"

\* C21 (as stated): in the minibatch update of every PPO variant the predicted
\* value is clipped to within clip_param of the value recorded at collection
\* time and the value loss is the maximum of the loss on the clipped and on the
\* unclipped prediction, so it is never smaller than the unclipped loss.
C21_ClippedValueLoss ==
  Updated =>
    LET clipped == values_clipped(up_in.b_value, up_in.value, up_cfg.clip_param)
        original == critic_loss_fn(up_variant, up_cfg, up_in.ret, up_in.value)
    IN
    /\ Abs(clipped - up_in.b_value) <= up_cfg.clip_param
    /\ up_out.value_loss
         = Max(original, critic_loss_fn(up_variant, up_cfg, up_in.ret, clipped))
    /\ up_out.value_loss >= original

\* ------------------------------------------------------------------ C22
\* C22 (as stated): in the minibatch update of every PPO variant the loss
\* backpropagated into the actor is the policy loss minus entropy_coef times
\* the mean entropy.
C22_EntropyBonus ==
  Updated =>
    up_out.actor_loss = up_in.policy_loss - up_cfg.entropy_coef * up_in.entropy

\* ------------------------------------------------------------------ C23
\* C23 (as stated): in every minibatch update of every PPO variant, on the
\* first and on every later call, each network whose optimizer is stepped had
\* its gradients cleared before the backward pass and its gradient norm
\* clipped after the backward pass and before the step.
C23_ClipBeforeStep ==
  \A i \in DOMAIN up_ops : up_ops[i].grad = "fresh" /\ up_ops[i].clipped

\* ------------------------------------------------------------------ C25
\* C25 (as stated): in the minibatch update of every PPO variant, tensors of
\* mismatching shapes make an assertion fail before any optimizer step of
\* that update.
C25_ShapeMismatchFatal ==
  (up_out # NoUpdate /\ up_in.shapes.kind # "match") =>
    /\ up_out.error = "AssertionError"
    /\ up_ops = <<>>

\* ------------------------------------------------------------------ C24
\* C24 (as stated): with the GAN adaptation loss every minibatch of the
\* adaptation phase steps the discriminator on the discriminator loss and the
\* adaptation module on the generator's adversarial loss, and the generator's
\* loss gives no gradient to, and makes no change of, the discriminator.
C24_AlternatingSteps ==
  (AdRoutine = "_train_adaptation" /\ ad_cfg.adaptation_loss = "gan"
     /\ AdCount("adapt_step") > 0) =>
    /\ ad_params["discriminator"] - ad_start.params["discriminator"]
         = AdCount("adapt_step")
    /\ ad_params["adaptation_module"] - ad_start.params["adaptation_module"]
         = AdCount("adapt_step")
    /\ "discriminator" \notin GanGradient("g_loss")
    /\ "adaptation_module" \in GanGradient("g_loss")

\* ------------------------------------------------------------------ C26
\* C26 (as stated): every sub-trajectory returned by MyBuffer.sample consists
\* of seq_len steps that were inserted at consecutive time steps, in insertion
\* order, also after the circular cursor has wrapped around.
C26_Contiguous ==
  smp_out.kind = "batch" =>
    \A i \in DOMAIN smp_out.batch :
      LET index == smp_out.batch[i].index IN
      \A j \in 1..(Len(index) - 1) : storage[index[j + 1]] = storage[index[j]] + 1

\* ------------------------------------------------------------------ C27
\* C27 (as stated): for every seq_len with 1 <= seq_len <= len(buffer),
\* seq_len = len(buffer) included, MyBuffer.sample returns sub-trajectories
\* whose time indices lie in [0, len(buffer)).
C27_SampleSucceeds ==
  (smp_out # NoSample /\ 1 <= smp_call.seq_len /\ smp_call.seq_len <= smp_call.len) =>
    /\ smp_out.kind = "batch"
    /\ \A i \in DOMAIN smp_out.batch :
         Range(smp_out.batch[i].index) \subseteq 0..(smp_call.len - 1)

\* ------------------------------------------------------------------ C28
\* C28 (as stated): a MASACPolicy.train_op call made with the buffer at or
\* above the warm-up size that runs all its gradient steps returns the
\* diagnostics mapping, also when no actor update fell due within the call.
C28_DiagnosticsReturned ==
  SacRanAllSteps => sac_result = "infos"

\* ------------------------------------------------------------------ C29
\* C29 (as stated): every configuration accepted by PPOConfig.__post_init__
\* leads the construction of PPOAdaptivePolicy to complete without error.
C29_ValidationAgrees ==
  (ad_route = "PPOConfig" /\ PostInitPasses(ad_cfg) /\ ad_pc \notin {"new", "cfg"}) =>
    /\ ad_pc # "failed"
    /\ ad_error.at # "construction"

\* ------------------------------------------------------------------ C30
\* C30: for LogOnEpisode with n_episodes >= 1, after every _step call fewer
\* than n_episodes records are pending; the logger is invoked at most once per
\* step and only when at least n_episodes records are pending; every record
\* made so far is either pending and in no aggregation or not pending and in
\* exactly one; and _step returns its input tensordict unchanged.
C30_EpisodeLogBatching ==
  /\ Len(log_stats) < log_n
  /\ log_last.logger_calls <= 1
  /\ log_last.logger_calls = 1 => log_last.stacked >= log_n
  /\ log_last.stacked > 0 => (log_last.stacked >= log_n /\ log_stats = <<>>)
  /\ \A id \in 1..MaxRecords :
       /\ id > log_records => (log_agg[id] = 0 /\ id \notin Range(log_stats))
       /\ id <= log_records =>
            IF id \in Range(log_stats) THEN log_agg[id] = 0 ELSE log_agg[id] = 1
  /\ \A i \in DOMAIN log_stats : \A j \in DOMAIN log_stats :
       log_stats[i] = log_stats[j] => i = j
  /\ log_last.returned = log_last.input

\* with n_episodes = 2 and one record pending, a step in which both
\* environments ended an episode logged three records at once
C30_Witness ==
  /\ log_n = 2 /\ log_envs = 2 /\ log_logger
  /\ log_last.logger_calls = 1 /\ log_last.stacked = 3
  /\ log_records = 3 /\ log_stats = <<>>
  /\ \A id \in 1..3 : log_agg[id] = 1

====
